---- MODULE Spec2Model ----
(***************************************************************************)
(* Model of the AURA decision pipeline of src/orchestrator-agent.js:       *)
(* GestureInterpreter (classifier), SafetyValidator, OrchestratorAgent     *)
(* (state machine, cooldown timers, test hooks).                           *)
(*                                                                         *)
(* Units.  Coordinates are integers in thousandths of a landmark unit,     *)
(* times are integers in milliseconds.  Every comparison the code makes on *)
(* a quotient or a square root is made here on the cross-multiplied or     *)
(* squared integers, so it is the comparison over the reals.               *)
(***************************************************************************)
EXTENDS Integers, Sequences, FiniteSets, TLC

VARIABLES
    now,              \* wall clock, Date.now()
    landmarkHistory,  \* GestureInterpreter.landmarkHistory
    fistStartTime,    \* GestureInterpreter.fistStartTime (NULL or a time)
    lastGesture,      \* GestureInterpreter.lastGesture
    cooldownActive,   \* OrchestratorAgent.cooldownActive
    cooldownTimer,    \* OrchestratorAgent.cooldownTimer (NULL or the due time of the handle)
    isMuted,          \* OrchestratorAgent.isMuted
    systemState,      \* OrchestratorAgent.systemState
    timers,           \* pending setTimeout callbacks, in creation order
    hasListener,      \* OrchestratorAgent.eventListeners is non-empty
    published,        \* states posted on the orchestrator channel by the last step
    visualized,       \* parameters posted on the visualization channel by the last step
    call,             \* what the last step was and what it did
    execFollow,       \* first actionState other than EXECUTED published after the last EXECUTED
    lastExecTime,     \* wall-clock time of the last action a frame executed (NULL if none)
    frameAtNow,       \* a frame has been processed at this instant
    destroyed,        \* destroy() has closed the channels
    windowStart,      \* when the last cooldown window was started (NULL if none, or ended by reset)
    poseSince,        \* when the closed-fist frames delivered without a break began (NULL if broken)
    nApi,             \* reset()/setTestState() calls so far
    arrived,          \* frames pushed on the history since it was last cleared
    fnIn,             \* input of the pure function under check
    fnOut,            \* its result
    snapshot,         \* the object the last getState() returned, as its caller left it
    currentState,     \* ActionExecutionAgent.currentState
    agentTimers,      \* pending auto-clear callbacks of ActionExecutionAgent, in creation order
    agentCall,        \* what the last step on the ActionExecutionAgent was and what it returned
    unmatched         \* 'cooldownStart' events emitted with no 'cooldownEnd' since (sticks at -1 or 2)

vars == << now, landmarkHistory, fistStartTime, lastGesture, cooldownActive,
           cooldownTimer, isMuted, systemState, timers, hasListener, published, visualized,
           call, execFollow, lastExecTime, poseSince, frameAtNow, windowStart, destroyed, nApi, arrived, fnIn, fnOut, snapshot, currentState, agentTimers, agentCall, unmatched >>

----------------------------------------------------------------------------
(* Bounds of the model *)

(* The clock runs to MaxTime in steps of Tick ms, or less to stop at a timer  *)
(* that is due; the history takes MaxHistory frames; reset() and            *)
(* setTestState() are called MaxApi times.  SwipeTick and SwipeMaxTime are  *)
(* the clock of the short runs in which swipes are made.                    *)
MaxTime == 2000
Tick == 500
MaxHistory == 3
MaxApi == 1
SwipeMaxTime == 750
SwipeTick == 250
SwipeMaxHistory == 5
DwellMaxTime == 1000
DwellTick == 250
DwellMaxHistory == 5

----------------------------------------------------------------------------
(* Enums and constants: src/orchestrator-agent.js 17-51, 60-64, 338 *)

NULL == -1

SystemStatus == {"ACTIVE", "IDLE", "ERROR"}
ConfidenceLevel == {"LOW", "MEDIUM", "HIGH"}
ActionState == {"NONE", "READY", "EXECUTED", "COOLDOWN"}
GestureType == {"NONE", "CLOSED_FIST", "SWIPE_LEFT", "SWIPE_RIGHT", "SWIPE_UP", "SWIPE_DOWN"}
ValidationReason == {"STABLE", "LOW_CONFIDENCE", "COOLDOWN_ACTIVE", "CAMERA_INVALID", "GESTURE_UNSTABLE"}

FIST_STABILITY_THRESHOLD_MS == 500
SWIPE_TIME_WINDOW_MS == 300
SWIPE_VELOCITY_THRESHOLD == 150
CURL_THRESHOLD == 150
HISTORY_SIZE == 30
cooldownDuration == 1500
executedDisplayMs == 300

----------------------------------------------------------------------------
(* Landmark arrays.  An entry is a point, or a hole (ok = FALSE) standing   *)
(* for an undefined/null array element.  The state holds an array by its   *)
(* shape (length, palm position, fingertip spread, index of a hole);       *)
(* PointsOf gives the array the code reads.                                *)

Pt(x, y, z) == [ok |-> TRUE, x |-> x, y |-> y, z |-> z]
Hole == [ok |-> FALSE, x |-> 0, y |-> 0, z |-> 0]

\* JS indices of the palm base points and of the fingertips, shifted by one
palmIndices == <<1, 6, 10, 14, 18>>
fingertipIndices == <<5, 9, 13, 17, 21>>

\* A hand of 21 points: every joint at (cx, cy), every fingertip `spread` to the right
Hand(cx, cy, spread) ==
    LET J == Pt(cx, cy, 0)
        T == Pt(cx + spread, cy, 0)
    IN  << J, J, J, J, T,  J, J, J, T,  J, J, J, T,  J, J, J, T,  J, J, J, T >>

WithHole(points, i) == [points EXCEPT ![i] = Hole]

Shape(len, cx, cy, spread, hole) ==
    [len |-> len, cx |-> cx, cy |-> cy, spread |-> spread, hole |-> hole]

PointsOf(shape) ==
    LET full == Hand(shape.cx, shape.cy, shape.spread)
        holed == IF shape.hole = 0 THEN full ELSE WithHole(full, shape.hole)
    IN  SubSeq(holed, 1, shape.len)

Abs(n) == IF n < 0 THEN -n ELSE n

\* F(e), with e evaluated once
Let(e, F(_)) == CHOOSE r \in {F(x) : x \in {e}} : TRUE

----------------------------------------------------------------------------
(* GestureInterpreter: src/orchestrator-agent.js 57-288.                    *)
(* A method that can throw returns a record with a field threw; the state   *)
(* it had written before throwing is part of the record.                    *)

noneResult == [gesture |-> "NONE", confidence |-> "LOW", isStable |-> FALSE]

Result(g, c, s) == [gesture |-> g, confidence |-> c, isStable |-> s]

\* landmarks.timestamp || Date.now()
TimestampOr(timestamp, clock) == IF timestamp # 0 THEN timestamp ELSE clock

\* sum over the palm indices of one coordinate: 5 times the palm centre
PalmSum(points, f(_)) ==
    f(points[palmIndices[1]]) + f(points[palmIndices[2]]) + f(points[palmIndices[3]])
      + f(points[palmIndices[4]]) + f(points[palmIndices[5]])

GetX(p) == p.x
GetY(p) == p.y
GetZ(p) == p.z

\* reading .x of an undefined element throws a TypeError
PalmThrows(points) == \E k \in 1..5 : ~points[palmIndices[k]].ok
TipThrows(points) == \E k \in 1..5 : ~points[fingertipIndices[k]].ok

\* _calculateFingerCurls: the five curl scores, each as 25 times the squared
\* distance from the fingertip to the palm centre
calculateFingerCurls(points) ==
    IF Len(points) < 21 THEN [threw |-> FALSE, isNull |-> TRUE, scores |-> <<>>]
    ELSE IF PalmThrows(points) \/ TipThrows(points)
    THEN [threw |-> TRUE, isNull |-> FALSE, scores |-> <<>>]
    ELSE LET Scores(palm) ==
                 LET Score(k) == LET tip == points[fingertipIndices[k]]
                                 IN  (5 * tip.x - palm[1]) * (5 * tip.x - palm[1])
                                   + (5 * tip.y - palm[2]) * (5 * tip.y - palm[2])
                                   + (5 * tip.z - palm[3]) * (5 * tip.z - palm[3])
                 IN  [threw |-> FALSE, isNull |-> FALSE,
                      scores |-> << Score(1), Score(2), Score(3), Score(4), Score(5) >>]
         IN  Let(<<PalmSum(points, GetX), PalmSum(points, GetY), PalmSum(points, GetZ)>>,
                 Scores)

\* score < CURL_THRESHOLD, on the squared and scaled score
Curled(score) == score < (5 * CURL_THRESHOLD) * (5 * CURL_THRESHOLD)

\* tiers whose middle one is HIGH without being stable
FistTierHighUnstable(durationMs) ==
    IF durationMs >= FIST_STABILITY_THRESHOLD_MS THEN Result("CLOSED_FIST", "HIGH", TRUE)
    ELSE IF 2 * durationMs >= FIST_STABILITY_THRESHOLD_MS THEN Result("CLOSED_FIST", "HIGH", FALSE)
    ELSE Result("CLOSED_FIST", "LOW", FALSE)

\* the tier _detectClosedFist gives a dwell of durationMs
FistTier(durationMs) ==
    IF durationMs >= FIST_STABILITY_THRESHOLD_MS THEN Result("CLOSED_FIST", "HIGH", TRUE)
    ELSE IF 2 * durationMs >= FIST_STABILITY_THRESHOLD_MS THEN Result("CLOSED_FIST", "MEDIUM", FALSE)
    ELSE Result("CLOSED_FIST", "LOW", FALSE)

\* _detectClosedFist(landmarks) on the classifier state (fst, lg)
detectClosedFist(landmarks, fst, lg, clock) ==
    LET same == [threw |-> FALSE, res |-> noneResult, fistStartTime |-> fst, lastGesture |-> lg]
        Decide(curls) ==
            IF curls.threw THEN [same EXCEPT !.threw = TRUE]
            ELSE IF curls.isNull THEN same
            ELSE IF ~(\A k \in 1..5 : Curled(curls.scores[k]))
            THEN [same EXCEPT !.fistStartTime = NULL]
            ELSE LET currentTime == TimestampOr(landmarks.timestamp, clock)
                 IN  IF fst = NULL
                     THEN [same EXCEPT !.res = Result("CLOSED_FIST", "LOW", FALSE),
                                       !.fistStartTime = currentTime]
                     ELSE LET tier == FistTier(currentTime - fst)
                          IN  [same EXCEPT !.res = tier,
                                           !.lastGesture = IF tier.confidence = "HIGH"
                                                           THEN "CLOSED_FIST" ELSE lg]
        Curls(points) == Let(calculateFingerCurls(points), Decide)
    IN  Let(PointsOf(landmarks.points), Curls)

\* a confidence that does not look at the secondary speed
calculateSwipeConfidenceAnySecondary(dom, sec, d) ==
    IF 1000 * dom > SWIPE_VELOCITY_THRESHOLD * 3 * d THEN "HIGH"
    ELSE IF 1000 * dom > SWIPE_VELOCITY_THRESHOLD * 2 * d THEN "MEDIUM"
    ELSE "LOW"

\* _calculateSwipeConfidence on speeds scaled by the same positive factor d
\* (dominantVel = dom / d, secondaryVel = sec / d, threshold in thousandths)
calculateSwipeConfidence(dom, sec, d) ==
    IF 1000 * dom > SWIPE_VELOCITY_THRESHOLD * 3 * d
    THEN IF 10 * sec < 3 * dom THEN "HIGH" ELSE "MEDIUM"
    ELSE IF 1000 * dom > SWIPE_VELOCITY_THRESHOLD * 2 * d THEN "MEDIUM"
    ELSE "LOW"

\* speed below SWIPE_VELOCITY_THRESHOLD, on the scaled speed
BelowThreshold(v, d) == 1000 * v < SWIPE_VELOCITY_THRESHOLD * d

\* a direction test that takes the larger axis, whatever the ratio
SwipeOfAnyDominant(dx, dy, dtMs) ==
    LET d == 5 * dtMs
        absVelX == Abs(dx)
        absVelY == Abs(dy)
    IN  IF BelowThreshold(absVelX, d) /\ BelowThreshold(absVelY, d) THEN noneResult
        ELSE IF absVelX > absVelY
        THEN IF BelowThreshold(absVelX, d) THEN noneResult
             ELSE Result(IF dx > 0 THEN "SWIPE_RIGHT" ELSE "SWIPE_LEFT",
                         calculateSwipeConfidence(absVelX, absVelY, d), TRUE)
        ELSE IF absVelY > absVelX
        THEN IF BelowThreshold(absVelY, d) THEN noneResult
             ELSE Result(IF dy > 0 THEN "SWIPE_DOWN" ELSE "SWIPE_UP",
                         calculateSwipeConfidence(absVelY, absVelX, d), TRUE)
        ELSE noneResult

\* direction and confidence from the palm displacement (dx, dy), both 5 times
\* the displacement in thousandths, over dtMs > 0 milliseconds: lines 215-240.
\* velocity = (dx / 5000) / (dtMs / 1000) = dx / (5 * dtMs)
SwipeOf(dx, dy, dtMs) ==
    LET d == 5 * dtMs
        absVelX == Abs(dx)
        absVelY == Abs(dy)
    IN  IF BelowThreshold(absVelX, d) /\ BelowThreshold(absVelY, d) THEN noneResult
        ELSE IF 2 * absVelX > 3 * absVelY
        THEN IF BelowThreshold(absVelX, d) THEN noneResult
             ELSE Result(IF dx > 0 THEN "SWIPE_RIGHT" ELSE "SWIPE_LEFT",
                         calculateSwipeConfidence(absVelX, absVelY, d), TRUE)
        ELSE IF 2 * absVelY > 3 * absVelX
        THEN IF BelowThreshold(absVelY, d) THEN noneResult
             ELSE Result(IF dy > 0 THEN "SWIPE_DOWN" ELSE "SWIPE_UP",
                         calculateSwipeConfidence(absVelY, absVelX, d), TRUE)
        ELSE noneResult

\* a _detectSwipe that leaves the history as it is when it detects a swipe
detectSwipeKeepsHistory(hist, lg) ==
    LET same == [threw |-> FALSE, res |-> noneResult, landmarkHistory |-> hist, lastGesture |-> lg]
        \* start = <<5 startPalm.x, 5 startPalm.y>>, end likewise
        Velocity(start, end, dtMs) ==
            LET Decide(res) ==
                    IF res.gesture = "NONE" THEN same
                    ELSE [same EXCEPT !.res = res,
                                      !.lastGesture = res.gesture]
            IN  Let(SwipeOf(end[1] - start[1], end[2] - start[2], dtMs), Decide)
        Between(first, last) ==
            LET Centres(ps) ==
                    IF PalmThrows(ps[1]) \/ PalmThrows(ps[2]) THEN [same EXCEPT !.threw = TRUE]
                    ELSE IF last.timestamp - first.timestamp <= 0 THEN same
                    ELSE Velocity(<<PalmSum(ps[1], GetX), PalmSum(ps[1], GetY)>>,
                                  <<PalmSum(ps[2], GetX), PalmSum(ps[2], GetY)>>,
                                  last.timestamp - first.timestamp)
            IN  \* _getPalmCenter returns null only under 18 points; the
                \* history holds arrays of 21 or more
                Let(<<PointsOf(first.points), PointsOf(last.points)>>, Centres)
        Window(recentFrames) ==
            IF Len(recentFrames) < 3 THEN same
            ELSE Between(recentFrames[1], recentFrames[Len(recentFrames)])
    IN  IF Len(hist) < 5 THEN same
        ELSE LET currentTime == hist[Len(hist)].timestamp
                 InWindow(lm) == (currentTime - lm.timestamp) <= SWIPE_TIME_WINDOW_MS
             IN  Let(SelectSeq(hist, InWindow), Window)

\* a _detectSwipe that is content with four frames of history
detectSwipeFourFrames(hist, lg) ==
    LET same == [threw |-> FALSE, res |-> noneResult, landmarkHistory |-> hist, lastGesture |-> lg]
        \* start = <<5 startPalm.x, 5 startPalm.y>>, end likewise
        Velocity(start, end, dtMs) ==
            LET Decide(res) ==
                    IF res.gesture = "NONE" THEN same
                    ELSE [same EXCEPT !.res = res,
                                      !.landmarkHistory = <<>>,
                                      !.lastGesture = res.gesture]
            IN  Let(SwipeOf(end[1] - start[1], end[2] - start[2], dtMs), Decide)
        Between(first, last) ==
            LET Centres(ps) ==
                    IF PalmThrows(ps[1]) \/ PalmThrows(ps[2]) THEN [same EXCEPT !.threw = TRUE]
                    ELSE IF last.timestamp - first.timestamp <= 0 THEN same
                    ELSE Velocity(<<PalmSum(ps[1], GetX), PalmSum(ps[1], GetY)>>,
                                  <<PalmSum(ps[2], GetX), PalmSum(ps[2], GetY)>>,
                                  last.timestamp - first.timestamp)
            IN  \* _getPalmCenter returns null only under 18 points; the
                \* history holds arrays of 21 or more
                Let(<<PointsOf(first.points), PointsOf(last.points)>>, Centres)
        Window(recentFrames) ==
            IF Len(recentFrames) < 3 THEN same
            ELSE Between(recentFrames[1], recentFrames[Len(recentFrames)])
    IN  IF Len(hist) < 4 THEN same
        ELSE LET currentTime == hist[Len(hist)].timestamp
                 InWindow(lm) == (currentTime - lm.timestamp) <= SWIPE_TIME_WINDOW_MS
             IN  Let(SelectSeq(hist, InWindow), Window)

\* _detectSwipe() on the history hist
detectSwipe(hist, lg) ==
    LET same == [threw |-> FALSE, res |-> noneResult, landmarkHistory |-> hist, lastGesture |-> lg]
        \* start = <<5 startPalm.x, 5 startPalm.y>>, end likewise
        Velocity(start, end, dtMs) ==
            LET Decide(res) ==
                    IF res.gesture = "NONE" THEN same
                    ELSE [same EXCEPT !.res = res,
                                      !.landmarkHistory = <<>>,
                                      !.lastGesture = res.gesture]
            IN  Let(SwipeOf(end[1] - start[1], end[2] - start[2], dtMs), Decide)
        Between(first, last) ==
            LET Centres(ps) ==
                    IF PalmThrows(ps[1]) \/ PalmThrows(ps[2]) THEN [same EXCEPT !.threw = TRUE]
                    ELSE IF last.timestamp - first.timestamp <= 0 THEN same
                    ELSE Velocity(<<PalmSum(ps[1], GetX), PalmSum(ps[1], GetY)>>,
                                  <<PalmSum(ps[2], GetX), PalmSum(ps[2], GetY)>>,
                                  last.timestamp - first.timestamp)
            IN  \* _getPalmCenter returns null only under 18 points; the
                \* history holds arrays of 21 or more
                Let(<<PointsOf(first.points), PointsOf(last.points)>>, Centres)
        Window(recentFrames) ==
            IF Len(recentFrames) < 3 THEN same
            ELSE Between(recentFrames[1], recentFrames[Len(recentFrames)])
    IN  IF Len(hist) < 5 THEN same
        ELSE LET currentTime == hist[Len(hist)].timestamp
                 InWindow(lm) == (currentTime - lm.timestamp) <= SWIPE_TIME_WINDOW_MS
             IN  Let(SelectSeq(hist, InWindow), Window)

\* a push that, on overflow, drops the frame just pushed instead of the oldest
PushHistoryDropsNewest(hist, entry) ==
    LET pushed == Append(hist, entry)
    IN  IF Len(pushed) > HISTORY_SIZE THEN hist ELSE pushed

\* history after push and the bounded shift: lines 84-93
PushHistory(hist, entry) ==
    LET pushed == Append(hist, entry)
    IN  IF Len(pushed) > HISTORY_SIZE THEN Tail(pushed) ELSE pushed

\* an update whose early return for an invalid frame leaves fistStartTime alone
updateKeepsDwell(landmarks, hist, fst, lg, clock) ==
    LET out == [threw |-> FALSE, res |-> noneResult, landmarkHistory |-> hist,
                fistStartTime |-> fst, lastGesture |-> lg]
        Dynamic(h1, fist) ==
            LET Decide(swipe) ==
                    IF swipe.threw
                    THEN [out EXCEPT !.threw = TRUE, !.landmarkHistory = h1,
                                     !.fistStartTime = fist.fistStartTime,
                                     !.lastGesture = fist.lastGesture]
                    ELSE IF swipe.res.gesture # "NONE"
                    THEN [out EXCEPT !.res = swipe.res,
                                     !.landmarkHistory = swipe.landmarkHistory,
                                     !.fistStartTime = fist.fistStartTime,
                                     !.lastGesture = swipe.lastGesture]
                    ELSE [out EXCEPT !.landmarkHistory = h1,
                                     !.fistStartTime = NULL,
                                     !.lastGesture = "NONE"]
            IN  Let(detectSwipe(h1, fist.lastGesture), Decide)
        Static(h1) ==
            LET Decide(fist) ==
                    IF fist.threw
                    THEN [out EXCEPT !.threw = TRUE, !.landmarkHistory = h1]
                    ELSE IF fist.res.gesture # "NONE"
                    THEN [out EXCEPT !.res = fist.res, !.landmarkHistory = h1,
                                     !.fistStartTime = fist.fistStartTime,
                                     !.lastGesture = fist.lastGesture]
                    ELSE Dynamic(h1, fist)
            IN  Let(detectClosedFist(landmarks, fst, lg, clock), Decide)
    IN  IF landmarks.isNull \/ ~landmarks.hasPoints \/ Len(PointsOf(landmarks.points)) < 21
        THEN [out EXCEPT !.lastGesture = "NONE"]
        ELSE Let(PushHistory(hist, [points |-> landmarks.points,
                                    timestamp |-> TimestampOr(landmarks.timestamp, clock)]),
                 Static)

\* an update that prefers a swipe to a closed fist when the frame shows both
updateSwipeFirst(landmarks, hist, fst, lg, clock) ==
    LET out == [threw |-> FALSE, res |-> noneResult, landmarkHistory |-> hist,
                fistStartTime |-> fst, lastGesture |-> lg]
        Dynamic(h1, fist) ==
            LET Decide(swipe) ==
                    IF swipe.threw
                    THEN [out EXCEPT !.threw = TRUE, !.landmarkHistory = h1,
                                     !.fistStartTime = fist.fistStartTime,
                                     !.lastGesture = fist.lastGesture]
                    ELSE IF swipe.res.gesture # "NONE"
                    THEN [out EXCEPT !.res = swipe.res,
                                     !.landmarkHistory = swipe.landmarkHistory,
                                     !.fistStartTime = fist.fistStartTime,
                                     !.lastGesture = swipe.lastGesture]
                    ELSE [out EXCEPT !.landmarkHistory = h1,
                                     !.fistStartTime = NULL,
                                     !.lastGesture = "NONE"]
            IN  Let(detectSwipe(h1, fist.lastGesture), Decide)
        Static(h1) ==
            LET Decide(fist) ==
                    IF fist.threw
                    THEN [out EXCEPT !.threw = TRUE, !.landmarkHistory = h1]
                    ELSE IF fist.res.gesture # "NONE" /\ detectSwipe(h1, lg).res.gesture = "NONE"
                    THEN [out EXCEPT !.res = fist.res, !.landmarkHistory = h1,
                                     !.fistStartTime = fist.fistStartTime,
                                     !.lastGesture = fist.lastGesture]
                    ELSE Dynamic(h1, fist)
            IN  Let(detectClosedFist(landmarks, fst, lg, clock), Decide)
    IN  IF landmarks.isNull \/ ~landmarks.hasPoints \/ Len(PointsOf(landmarks.points)) < 21
        THEN [out EXCEPT !.fistStartTime = NULL, !.lastGesture = "NONE"]
        ELSE Let(PushHistory(hist, [points |-> landmarks.points,
                                    timestamp |-> TimestampOr(landmarks.timestamp, clock)]),
                 Static)

\* update(landmarks) on the classifier state (hist, fst, lg); landmarks.points
\* is the shape of an array; hasPoints = FALSE when it is missing, isNull = TRUE
\* when landmarks itself is missing
update(landmarks, hist, fst, lg, clock) ==
    LET out == [threw |-> FALSE, res |-> noneResult, landmarkHistory |-> hist,
                fistStartTime |-> fst, lastGesture |-> lg]
        Dynamic(h1, fist) ==
            LET Decide(swipe) ==
                    IF swipe.threw
                    THEN [out EXCEPT !.threw = TRUE, !.landmarkHistory = h1,
                                     !.fistStartTime = fist.fistStartTime,
                                     !.lastGesture = fist.lastGesture]
                    ELSE IF swipe.res.gesture # "NONE"
                    THEN [out EXCEPT !.res = swipe.res,
                                     !.landmarkHistory = swipe.landmarkHistory,
                                     !.fistStartTime = fist.fistStartTime,
                                     !.lastGesture = swipe.lastGesture]
                    ELSE [out EXCEPT !.landmarkHistory = h1,
                                     !.fistStartTime = NULL,
                                     !.lastGesture = "NONE"]
            IN  Let(detectSwipe(h1, fist.lastGesture), Decide)
        Static(h1) ==
            LET Decide(fist) ==
                    IF fist.threw
                    THEN [out EXCEPT !.threw = TRUE, !.landmarkHistory = h1]
                    ELSE IF fist.res.gesture # "NONE"
                    THEN [out EXCEPT !.res = fist.res, !.landmarkHistory = h1,
                                     !.fistStartTime = fist.fistStartTime,
                                     !.lastGesture = fist.lastGesture]
                    ELSE Dynamic(h1, fist)
            IN  Let(detectClosedFist(landmarks, fst, lg, clock), Decide)
    IN  IF landmarks.isNull \/ ~landmarks.hasPoints \/ Len(PointsOf(landmarks.points)) < 21
        THEN [out EXCEPT !.fistStartTime = NULL, !.lastGesture = "NONE"]
        ELSE Let(PushHistory(hist, [points |-> landmarks.points,
                                    timestamp |-> TimestampOr(landmarks.timestamp, clock)]),
                 Static)

\* GestureInterpreter.reset
interpreterReset == [landmarkHistory |-> <<>>, fistStartTime |-> NULL, lastGesture |-> "NONE"]

----------------------------------------------------------------------------
(* SafetyValidator: src/orchestrator-agent.js 294-324 *)

\* validate with the cooldown check put before the camera check
validateCooldownFirst(input) ==
    IF input.cooldownActive THEN [approved |-> FALSE, reason |-> "COOLDOWN_ACTIVE"]
    ELSE IF ~input.cameraValid THEN [approved |-> FALSE, reason |-> "CAMERA_INVALID"]
    ELSE IF input.confidence # "HIGH" THEN [approved |-> FALSE, reason |-> "LOW_CONFIDENCE"]
    ELSE IF ~input.isStable THEN [approved |-> FALSE, reason |-> "GESTURE_UNSTABLE"]
    ELSE [approved |-> TRUE, reason |-> "STABLE"]

validate(input) ==
    IF ~input.cameraValid THEN [approved |-> FALSE, reason |-> "CAMERA_INVALID"]
    ELSE IF input.cooldownActive THEN [approved |-> FALSE, reason |-> "COOLDOWN_ACTIVE"]
    ELSE IF input.confidence # "HIGH" THEN [approved |-> FALSE, reason |-> "LOW_CONFIDENCE"]
    ELSE IF ~input.isStable THEN [approved |-> FALSE, reason |-> "GESTURE_UNSTABLE"]
    ELSE [approved |-> TRUE, reason |-> "STABLE"]

----------------------------------------------------------------------------
(* OrchestratorAgent: src/orchestrator-agent.js 330-783 *)

State(status, gesture, confidence, approved, action, message) ==
    [systemStatus |-> status, detectedGesture |-> gesture, confidence |-> confidence,
     safetyApproved |-> approved, actionState |-> action, userMessage |-> message]

createIdleState == State("IDLE", "NONE", "LOW", FALSE, "NONE", "No hand detected")

createActiveState(gesture, confidence, approved, action, message) ==
    State("ACTIVE", gesture, confidence, approved, action, message)

\* an error state that claims approval
createErrorStateApproved(message) == State("ERROR", "NONE", "LOW", TRUE, "NONE", message)

createErrorState(message) == State("ERROR", "NONE", "LOW", FALSE, "NONE", message)

getReasonMessage(reason) ==
    CASE reason = "CAMERA_INVALID" -> "Camera unavailable"
      [] reason = "COOLDOWN_ACTIVE" -> "Cooldown active"
      [] reason = "LOW_CONFIDENCE" -> "Gesture unclear"
      [] reason = "GESTURE_UNSTABLE" -> "Hold gesture steady"
      [] OTHER -> "Waiting..."

\* an _executeAction whose closed fist mutes and never unmutes
executeActionMutesOnly(gesture, muted) ==
    CASE gesture = "CLOSED_FIST" ->
            [actionExecuted |-> TRUE, actionType |-> "MUTE",
             message |-> "Muted", isMuted |-> TRUE]
      [] gesture = "SWIPE_LEFT" ->
            [actionExecuted |-> TRUE, actionType |-> "NAVIGATE_LEFT",
             message |-> "Navigated Left", isMuted |-> muted]
      [] gesture = "SWIPE_RIGHT" ->
            [actionExecuted |-> TRUE, actionType |-> "NAVIGATE_RIGHT",
             message |-> "Navigated Right", isMuted |-> muted]
      [] gesture = "SWIPE_UP" ->
            [actionExecuted |-> TRUE, actionType |-> "NAVIGATE_UP",
             message |-> "Navigated Up", isMuted |-> muted]
      [] gesture = "SWIPE_DOWN" ->
            [actionExecuted |-> TRUE, actionType |-> "NAVIGATE_DOWN",
             message |-> "Navigated Down", isMuted |-> muted]
      [] OTHER ->
            [actionExecuted |-> FALSE, actionType |-> "NONE",
             message |-> "No action", isMuted |-> muted]

\* _executeAction(gesture) with isMuted = muted
executeAction(gesture, muted) ==
    CASE gesture = "CLOSED_FIST" ->
            [actionExecuted |-> TRUE, actionType |-> IF ~muted THEN "MUTE" ELSE "UNMUTE",
             message |-> IF ~muted THEN "Muted" ELSE "Unmuted", isMuted |-> ~muted]
      [] gesture = "SWIPE_LEFT" ->
            [actionExecuted |-> TRUE, actionType |-> "NAVIGATE_LEFT",
             message |-> "Navigated Left", isMuted |-> muted]
      [] gesture = "SWIPE_RIGHT" ->
            [actionExecuted |-> TRUE, actionType |-> "NAVIGATE_RIGHT",
             message |-> "Navigated Right", isMuted |-> muted]
      [] gesture = "SWIPE_UP" ->
            [actionExecuted |-> TRUE, actionType |-> "NAVIGATE_UP",
             message |-> "Navigated Up", isMuted |-> muted]
      [] gesture = "SWIPE_DOWN" ->
            [actionExecuted |-> TRUE, actionType |-> "NAVIGATE_DOWN",
             message |-> "Navigated Down", isMuted |-> muted]
      [] OTHER ->
            [actionExecuted |-> FALSE, actionType |-> "NONE",
             message |-> "No action", isMuted |-> muted]

\* _validateVisionData(data)
validateVisionData(data) ==
    IF data.isNull THEN FALSE
    ELSE IF data.handDetected \notin {"true", "false"} THEN FALSE
    ELSE IF data.handDetected = "true" /\ data.landmarks.type # "array" THEN FALSE
    ELSE TRUE

(* Listener faults.  A registered listener is caller code and may throw.    *)
(* fault names what it does during one handler: "none", "cooldownStart"     *)
(* (throws on that event), "stateChange" (throws on every stateChange),     *)
(* "stateChangeOnce" (throws on the first stateChange of the handler).      *)
Faults == {"none", "cooldownStart", "stateChange", "stateChangeOnce"}

EmitThrows(type, fault, nPublished) ==
    \/ type = "cooldownStart" /\ fault = "cooldownStart"
    \/ type = "stateChange" /\ fault = "stateChange"
    \/ type = "stateChange" /\ fault = "stateChangeOnce" /\ nPublished = 1

ThrownBy(S, who, threw) == IF threw THEN who ELSE S.thrownBy

\* a projection that reports the cooldown flag of EXECUTED states too
forwardToVisualizationCooldownToo(state) ==
    [confidence |-> CASE state.confidence = "HIGH" -> 95
                      [] state.confidence = "MEDIUM" -> 60
                      [] state.confidence = "LOW" -> 20
                      [] OTHER -> 0,
     gestureType |-> state.detectedGesture,
     safetyApproved |-> state.safetyApproved,
     actionExecuted |-> state.actionState = "EXECUTED",
     cooldownActive |-> state.actionState \in {"EXECUTED", "COOLDOWN"},
     systemStatus |-> state.systemStatus]

\* _confidenceToNumber, in hundredths
confidenceToNumber(confidence) ==
    CASE confidence = "HIGH" -> 95
      [] confidence = "MEDIUM" -> 60
      [] confidence = "LOW" -> 20
      [] OTHER -> 0

\* the visualParams _forwardToVisualization posts for the state
forwardToVisualization(state) ==
    [confidence |-> confidenceToNumber(state.confidence),
     gestureType |-> state.detectedGesture,
     safetyApproved |-> state.safetyApproved,
     actionExecuted |-> state.actionState = "EXECUTED",
     cooldownActive |-> state.actionState = "COOLDOWN",
     systemStatus |-> state.systemStatus]

\* _broadcastState() on the handler's working state S: the state is posted on
\* the channels, then 'stateChange' is emitted to the listeners; postMessage
\* on a closed BroadcastChannel throws InvalidStateError
broadcastState(S, fault) ==
    LET pubs == Append(S.published, S.systemState)
    IN  IF S.closed
        THEN [S EXCEPT !.steps = Append(S.steps, "broadcast"),
                       !.threw = TRUE,
                       !.thrownBy = "channel"]
        ELSE [S EXCEPT !.published = pubs,
                       !.visualized = Append(S.visualized, forwardToVisualization(S.systemState)),
                       !.steps = Append(S.steps, "broadcast"),
                       !.threw = EmitThrows("stateChange", fault, Len(pubs)),
                       !.thrownBy = ThrownBy(S, "listener", EmitThrows("stateChange", fault, Len(pubs)))]

\* _startCooldown with an expiry callback that comes 500 ms too soon
startCooldownEarly(S, fault, clock) ==
    [S EXCEPT !.cooldownActive = TRUE,
              !.timers = S.timers \o << [kind |-> "downgrade", due |-> clock + executedDisplayMs],
                                         [kind |-> "expiry", due |-> clock + cooldownDuration - 500] >>,
              !.cooldownTimer = clock + cooldownDuration - 500,
              !.steps = Append(S.steps, "startCooldown"),
              !.threw = EmitThrows("cooldownStart", fault, 0),
              !.thrownBy = ThrownBy(S, "listener", EmitThrows("cooldownStart", fault, 0))]

\* a _startCooldown that also makes the classifier forget the fist dwell
startCooldownClearsDwell(S, fault, clock) ==
    [S EXCEPT !.cooldownActive = TRUE,
              !.fistStartTime = NULL,
              !.timers = S.timers \o << [kind |-> "downgrade", due |-> clock + executedDisplayMs],
                                         [kind |-> "expiry", due |-> clock + cooldownDuration] >>,
              !.cooldownTimer = clock + cooldownDuration,
              !.steps = Append(S.steps, "startCooldown"),
              !.threw = EmitThrows("cooldownStart", fault, 0),
              !.thrownBy = ThrownBy(S, "listener", EmitThrows("cooldownStart", fault, 0))]

\* _startCooldown() on S at wall-clock time clock
startCooldown(S, fault, clock) ==
    [S EXCEPT !.cooldownActive = TRUE,
              !.timers = S.timers \o << [kind |-> "downgrade", due |-> clock + executedDisplayMs],
                                         [kind |-> "expiry", due |-> clock + cooldownDuration] >>,
              !.cooldownTimer = clock + cooldownDuration,
              !.steps = Append(S.steps, "startCooldown"),
              !.threw = EmitThrows("cooldownStart", fault, 0),
              !.thrownBy = ThrownBy(S, "listener", EmitThrows("cooldownStart", fault, 0))]

\* the landmarks object processVisionData hands to the classifier
LandmarksOf(visionData) ==
    [isNull |-> FALSE, hasPoints |-> TRUE, points |-> visionData.landmarks.points,
     timestamp |-> visionData.timestamp]

\* Step 4 and Decision Rule 4, lines 447-464, on the state S2 the safety
\* gate let through with the classification g
stepAction(S2, g, fault, clock) ==
    LET Cooldown(S3) ==
            LET Publish(S4) == IF S4.threw THEN S4 ELSE broadcastState(S4, fault)
            IN  IF S3.executed
                THEN Let(startCooldown(S3, fault, clock), Publish)
                ELSE Publish(S3)
        Act(actionResult) ==
            Let([S2 EXCEPT !.isMuted = actionResult.isMuted,
                           !.executed = actionResult.actionExecuted,
                           !.steps = Append(S2.steps, "execute"),
                           !.systemState =
                               createActiveState(g.gesture, g.confidence, TRUE,
                                   IF actionResult.actionExecuted
                                   THEN "EXECUTED" ELSE "READY",
                                   actionResult.message)], Cooldown)
    IN  Let(executeAction(g.gesture, S2.isMuted), Act)

\* a pipeline with no safety gate: the action follows the classification at once
stepSafetyOpen(S1, g, fault, clock) == stepAction(S1, g, fault, clock)

\* Step 3 with a denial that starts the cooldown window again
stepSafetyRestarts(S1, g, fault, clock) ==
    LET Decide(safetyResult) ==
            LET Denied(S2) ==
                    IF ~safetyResult.approved
                    THEN broadcastState([startCooldown(S2, "none", clock) EXCEPT !.systemState =
                             createActiveState(g.gesture, g.confidence, FALSE,
                                 IF S2.cooldownActive THEN "COOLDOWN" ELSE "NONE",
                                 getReasonMessage(safetyResult.reason))], fault)
                    ELSE IF S2.cooldownActive
                    THEN broadcastState([S2 EXCEPT !.systemState =
                             createActiveState(g.gesture, g.confidence, FALSE,
                                 "COOLDOWN", "Cooldown active")], fault)
                    ELSE stepAction(S2, g, fault, clock)
            IN  Let([S1 EXCEPT !.validated = TRUE,
                               !.approved = safetyResult.approved,
                               !.steps = Append(S1.steps, "validate")], Denied)
    IN  Let(validate([gesture |-> g.gesture, confidence |-> g.confidence,
                      isStable |-> g.isStable,
                      cooldownActive |-> S1.cooldownActive,
                      cameraValid |-> TRUE]), Decide)

\* Step 3 and Decision Rules 3 and 5, lines 411-445, on the state S1 after the
\* classification g
stepSafety(S1, g, fault, clock) ==
    LET Decide(safetyResult) ==
            LET Denied(S2) ==
                    IF ~safetyResult.approved
                    THEN broadcastState([S2 EXCEPT !.systemState =
                             createActiveState(g.gesture, g.confidence, FALSE,
                                 IF S2.cooldownActive THEN "COOLDOWN" ELSE "NONE",
                                 getReasonMessage(safetyResult.reason))], fault)
                    ELSE IF S2.cooldownActive
                    THEN broadcastState([S2 EXCEPT !.systemState =
                             createActiveState(g.gesture, g.confidence, FALSE,
                                 "COOLDOWN", "Cooldown active")], fault)
                    ELSE stepAction(S2, g, fault, clock)
            IN  Let([S1 EXCEPT !.validated = TRUE,
                               !.approved = safetyResult.approved,
                               !.steps = Append(S1.steps, "validate")], Denied)
    IN  Let(validate([gesture |-> g.gesture, confidence |-> g.confidence,
                      isStable |-> g.isStable,
                      cooldownActive |-> S1.cooldownActive,
                      cameraValid |-> TRUE]), Decide)

\* Step 2 with a Decision Rule 2 that shows COOLDOWN while a window is open
stepGestureShowsCooldown(S, visionData, fault, clock) ==
    LET Classified(u) ==
            LET Rule2(S1) ==
                    IF u.threw THEN S1
                    ELSE IF u.res.gesture = "NONE" \/ u.res.confidence # "HIGH"
                    THEN broadcastState([S1 EXCEPT !.systemState =
                             createActiveState(u.res.gesture, u.res.confidence, FALSE,
                                               IF S1.cooldownActive THEN "COOLDOWN" ELSE "NONE",
                                               "Gesture unclear")], fault)
                    ELSE stepSafety(S1, u.res, fault, clock)
            IN  Let([S EXCEPT !.landmarkHistory = u.landmarkHistory,
                              !.fistStartTime = u.fistStartTime,
                              !.lastGesture = u.lastGesture,
                              !.classified = ~u.threw,
                              !.gestureResult = u.res,
                              !.steps = Append(S.steps, "classify"),
                              !.threw = u.threw,
                              !.thrownBy = ThrownBy(S, "classifier", u.threw)], Rule2)
    IN  Let(update(LandmarksOf(visionData), S.landmarkHistory, S.fistStartTime,
                   S.lastGesture, clock), Classified)

\* Step 2 and Decision Rule 2, lines 391-409
stepGesture(S, visionData, fault, clock) ==
    LET Classified(u) ==
            LET Rule2(S1) ==
                    IF u.threw THEN S1
                    ELSE IF u.res.gesture = "NONE" \/ u.res.confidence # "HIGH"
                    THEN broadcastState([S1 EXCEPT !.systemState =
                             createActiveState(u.res.gesture, u.res.confidence, FALSE,
                                               "NONE", "Gesture unclear")], fault)
                    ELSE stepSafety(S1, u.res, fault, clock)
            IN  Let([S EXCEPT !.landmarkHistory = u.landmarkHistory,
                              !.fistStartTime = u.fistStartTime,
                              !.lastGesture = u.lastGesture,
                              !.classified = ~u.threw,
                              !.gestureResult = u.res,
                              !.steps = Append(S.steps, "classify"),
                              !.threw = u.threw,
                              !.thrownBy = ThrownBy(S, "classifier", u.threw)], Rule2)
    IN  Let(update(LandmarksOf(visionData), S.landmarkHistory, S.fistStartTime,
                   S.lastGesture, clock), Classified)

\* a try block whose no-hand branch also closes the cooldown window
tryBlockIdleClears(S, visionData, fault, clock) ==
    LET Publish(S0) == broadcastState(S0, fault)
    IN  IF ~validateVisionData(visionData)
        THEN Let([S EXCEPT !.systemState = createErrorState("Invalid vision data")], Publish)
        ELSE IF visionData.handDetected = "false"
        THEN Let([S EXCEPT !.systemState = createIdleState,
                           !.cooldownActive = FALSE], Publish)
        ELSE stepGesture(S, visionData, fault, clock)

\* the try block of processVisionData: lines 376-464
tryBlock(S, visionData, fault, clock) ==
    LET Publish(S0) == broadcastState(S0, fault)
    IN  IF ~validateVisionData(visionData)
        THEN Let([S EXCEPT !.systemState = createErrorState("Invalid vision data")], Publish)
        ELSE IF visionData.handDetected = "false"
        THEN Let([S EXCEPT !.systemState = createIdleState], Publish)
        ELSE stepGesture(S, visionData, fault, clock)

\* processVisionData(visionData): the try block, and the catch of lines 466-470.
\* escaped: the exception left the handler (the catch's own broadcast threw)
processVisionData(S, visionData, fault, clock) ==
    LET Catch(T) ==
            LET Rethrow(C) == [C EXCEPT !.escaped = C.threw]
                Handle(E) == Let(broadcastState(E, fault), Rethrow)
            IN  IF ~T.threw THEN T
                ELSE Let([T EXCEPT !.systemState =
                                       createErrorState("System paused due to uncertainty"),
                                   !.caught = TRUE,
                                   !.steps = Append(T.steps, "catch")], Handle)
    IN  Let(tryBlock(S, visionData, fault, clock), Catch)

----------------------------------------------------------------------------
(* Timers: setTimeout / clearTimeout.  timers is in creation order; the     *)
(* callback that runs next is the one due first, the earlier created first  *)
(* among equals.  A handle is named by its due time: cooldownTimer always   *)
(* holds the most recently created expiry timer, which is the last pending  *)
(* expiry entry with that due time if it is pending at all.                 *)

NextTimer(tm) ==
    CHOOSE i \in 1..Len(tm) :
        \A j \in 1..Len(tm) : tm[j].due > tm[i].due \/ (tm[j].due = tm[i].due /\ j >= i)

RemoveAt(tm, i) == SubSeq(tm, 1, i - 1) \o SubSeq(tm, i + 1, Len(tm))

\* clearTimeout(handle), guarded by `if (this.cooldownTimer)`
clearTimeout(tm, handle) ==
    LET hits == {i \in 1..Len(tm) : tm[i].kind = "expiry" /\ tm[i].due = handle}
    IN  IF handle = NULL \/ hits = {} THEN tm
        ELSE RemoveAt(tm, CHOOSE i \in hits : \A j \in hits : j <= i)

----------------------------------------------------------------------------
(* Inputs *)

EmptyShape == Shape(0, 0, 0, 0, 0)

NoLandmarks == [type |-> "missing", points |-> EmptyShape]

Frame(hand, lm, clock) ==
    [isNull |-> FALSE, handDetected |-> hand, landmarks |-> lm, timestamp |-> clock]

ArrayOf(shape) == [type |-> "array", points |-> shape]

FistSpread == 50
OpenSpread == 300
SwipeShift == 500

\* the frames the vision collaborator (or injectVisionData) may deliver;
\* the vision agent stamps them with Date.now(): src/vision-agent.js 95
FrameKinds == {"null", "badFlag", "noHand", "noLandmarks", "notArray", "empty", "short",
               "fist", "holePalm"}

\* the frames of the short runs in which swipes are made
SwipeKinds == {"fist", "open", "openRight", "holePalm"}

\* the frames of the runs in which every frame has a later timestamp
DwellKinds == {"null", "noHand", "empty", "short", "fist", "open", "holeTip"}

\* the frames of the runs with reset() and setTestState()
ApiKinds == {"null", "noHand", "empty", "fist"}

VisionData(kind, clock) ==
    CASE kind = "null" -> [Frame("false", NoLandmarks, clock) EXCEPT !.isNull = TRUE]
      [] kind = "badFlag" -> Frame("other", ArrayOf(Shape(21, 0, 0, FistSpread, 0)), clock)
      [] kind = "noHand" -> Frame("false", ArrayOf(EmptyShape), clock)
      [] kind = "noLandmarks" -> Frame("true", NoLandmarks, clock)
      [] kind = "notArray" -> Frame("true", [type |-> "object", points |-> EmptyShape], clock)
      [] kind = "empty" -> Frame("true", ArrayOf(EmptyShape), clock)
      [] kind = "short" -> Frame("true", ArrayOf(Shape(20, 0, 0, FistSpread, 0)), clock)
      [] kind = "fist" -> Frame("true", ArrayOf(Shape(21, 0, 0, FistSpread, 0)), clock)
      [] kind = "open" -> Frame("true", ArrayOf(Shape(21, 0, 0, OpenSpread, 0)), clock)
      [] kind = "openRight" -> Frame("true", ArrayOf(Shape(21, SwipeShift, 0, OpenSpread, 0)), clock)
      [] kind = "fistRight" -> Frame("true", ArrayOf(Shape(21, SwipeShift, 0, FistSpread, 0)), clock)
      [] kind = "holePalm" -> Frame("true", ArrayOf(Shape(21, 0, 0, FistSpread, 6)), clock)
      [] kind = "holeTip" -> Frame("true", ArrayOf(Shape(21, 0, 0, FistSpread, 5)), clock)

----------------------------------------------------------------------------
(* Ghost bookkeeping *)

Range(seq) == {seq[i] : i \in 1..Len(seq)}

\* the frames that arrived since the history was last cleared, after update
\* was given landmarks at time clock and left the history hist: a frame that
\* passes the check of line 78 arrives; line 244 clears
ArrivedAfter(arr, landmarks, hist, clock) ==
    IF landmarks.isNull \/ ~landmarks.hasPoints \/ Len(PointsOf(landmarks.points)) < 21
    THEN arr
    ELSE IF hist = <<>> THEN <<>>
    ELSE Append(arr, [points |-> landmarks.points,
                      timestamp |-> TimestampOr(landmarks.timestamp, clock)])

NoCall == [op |-> "none", arg |-> "", fault |-> "none", steps |-> <<>>,
           classified |-> FALSE, gestureResult |-> noneResult, validated |-> FALSE,
           approved |-> FALSE, executed |-> FALSE, caught |-> FALSE, escaped |-> FALSE,
           cooldownBefore |-> FALSE, mutedBefore |-> FALSE, execBefore |-> NULL]

RECURSIVE FollowAfter(_, _)
FollowAfter(ef, pubs) ==
    IF pubs = <<>> THEN ef
    ELSE LET a == Head(pubs).actionState
         IN  FollowAfter(IF a = "EXECUTED" THEN "pending"
                         ELSE IF ef = "pending" THEN a ELSE ef, Tail(pubs))

\* the record of a timer callback or API call op that ended in R
CallOf(op, R) ==
    [NoCall EXCEPT !.op = op, !.steps = R.steps, !.escaped = R.threw,
                   !.cooldownBefore = cooldownActive,
                   !.mutedBefore = isMuted, !.execBefore = lastExecTime]

\* the working state a handler starts from
Working ==
    [landmarkHistory |-> landmarkHistory, fistStartTime |-> fistStartTime,
     lastGesture |-> lastGesture, systemState |-> systemState,
     cooldownActive |-> cooldownActive, cooldownTimer |-> cooldownTimer,
     isMuted |-> isMuted, timers |-> timers, closed |-> destroyed,
     published |-> <<>>, visualized |-> <<>>, steps |-> <<>>,
     threw |-> FALSE, thrownBy |-> "none", caught |-> FALSE, escaped |-> FALSE, classified |-> FALSE,
     gestureResult |-> noneResult, validated |-> FALSE, approved |-> FALSE,
     executed |-> FALSE]

\* the orchestrator's variables after a handler that ended in R
\* the count of 'cooldownStart' events with no 'cooldownEnd' since, after the
\* events of one call: _startCooldown emits 'cooldownStart' (line 544), the
\* expiry callback 'cooldownEnd' (line 541); a second start on an unmatched
\* one gives 2, an end with nothing to match gives -1, and both stay
RECURSIVE afterEvents(_, _)
afterEvents(n, steps) ==
    IF steps = <<>> \/ n \notin {0, 1} THEN n
    ELSE afterEvents(CASE Head(steps) = "startCooldown" -> n + 1
                       [] Head(steps) = "cooldownEnd" -> n - 1
                       [] OTHER -> n, Tail(steps))

Commit(R) ==
    /\ landmarkHistory' = R.landmarkHistory
    /\ fistStartTime' = R.fistStartTime
    /\ lastGesture' = R.lastGesture
    /\ systemState' = R.systemState
    /\ cooldownActive' = R.cooldownActive
    /\ cooldownTimer' = R.cooldownTimer
    /\ isMuted' = R.isMuted
    /\ timers' = R.timers
    /\ published' = R.published
    /\ visualized' = R.visualized
    /\ execFollow' = FollowAfter(execFollow, R.published)
    /\ unmatched' = afterEvents(unmatched, R.steps)

----------------------------------------------------------------------------
(* ActionExecutionAgent (src/action_execution_agent.js)                      *)

\* this.cooldownDuration: config.cooldownDuration || 1500
agentCooldownDuration == 1500

\* currentState as the constructor builds it and as reset() rebuilds it
initialCurrentState ==
    [isMuted |-> FALSE, lastAction |-> "null", cooldownActive |-> FALSE,
     cooldownEndTime |-> NULL]

\* the keys of the action registry
RegisteredGestures ==
    {"CLOSED_FIST", "SWIPE_LEFT", "SWIPE_RIGHT", "SWIPE_UP", "SWIPE_DOWN"}

\* keys the registry, an object literal, inherits from Object.prototype:
\* toString returns a string when called without a receiver, hasOwnProperty
\* throws a TypeError
InheritedReturning == {"toString"}

InheritedThrowing == {"hasOwnProperty"}

\* this.actionHandlers[gestureType]: own keys first, inherited ones next,
\* undefined for any other key
actionHandlers(gestureType) ==
    CASE gestureType = "CLOSED_FIST" -> "handleMuteToggle"
      [] gestureType = "SWIPE_LEFT" -> "handleNavigationLeft"
      [] gestureType = "SWIPE_RIGHT" -> "handleNavigationRight"
      [] gestureType = "SWIPE_UP" -> "handleNavigationUp"
      [] gestureType = "SWIPE_DOWN" -> "handleNavigationDown"
      [] gestureType \in InheritedReturning -> "inheritedReturning"
      [] gestureType \in InheritedThrowing -> "inheritedThrowing"
      [] OTHER -> "undefined"

createResponse(actionExecuted, actionType, cooldownStarted) ==
    [actionExecuted |-> actionExecuted, actionType |-> actionType,
     cooldownStarted |-> cooldownStarted]

\* handleMuteToggle: flips isMuted, records the action, returns its type
handleMuteToggle(cs) ==
    [threw |-> FALSE,
     actionType |-> IF ~cs.isMuted THEN "MUTE" ELSE "UNMUTE",
     state |-> [cs EXCEPT !.isMuted = ~cs.isMuted,
                          !.lastAction = IF ~cs.isMuted THEN "MUTE" ELSE "UNMUTE"]]

\* handleNavigationLeft/Right/Up/Down: record the action, return NAVIGATION
handleNavigation(cs, direction) ==
    [threw |-> FALSE, actionType |-> "NAVIGATION",
     state |-> [cs EXCEPT !.lastAction = direction]]

\* handler(systemState) for whatever the registry lookup gave
callHandler(handler, cs) ==
    CASE handler = "handleMuteToggle" -> handleMuteToggle(cs)
      [] handler = "handleNavigationLeft" -> handleNavigation(cs, "NAVIGATION_LEFT")
      [] handler = "handleNavigationRight" -> handleNavigation(cs, "NAVIGATION_RIGHT")
      [] handler = "handleNavigationUp" -> handleNavigation(cs, "NAVIGATION_UP")
      [] handler = "handleNavigationDown" -> handleNavigation(cs, "NAVIGATION_DOWN")
      [] handler = "inheritedReturning" ->
             [threw |-> FALSE, actionType |-> "undefined", state |-> cs]
      [] OTHER -> [threw |-> TRUE, actionType |-> "undefined", state |-> cs]

\* isInCooldown: the answer, and currentState after a lapsed window is cleared
isInCooldown(cs, clock) ==
    IF ~cs.cooldownActive THEN [result |-> FALSE, state |-> cs]
    ELSE IF clock >= cs.cooldownEndTime
         THEN [result |-> FALSE,
               state |-> [cs EXCEPT !.cooldownActive = FALSE, !.cooldownEndTime = NULL]]
         ELSE [result |-> TRUE, state |-> cs]

\* startCooldown: opens the window and schedules the auto-clear callback
agentStartCooldown(cs, tm, clock) ==
    [state |-> [cs EXCEPT !.cooldownActive = TRUE,
                          !.cooldownEndTime = clock + agentCooldownDuration],
     timers |-> Append(tm, [due |-> clock + agentCooldownDuration, set |-> clock])]

\* execute(input): the response, currentState and the timers after the call
agentExecute(input, cs, tm, clock) ==
    IF ~input.approved
    THEN [response |-> createResponse(FALSE, "NONE", FALSE), state |-> cs,
          timers |-> tm, emitted |-> "none"]
    ELSE LET cool == isInCooldown(cs, clock)
             handler == actionHandlers(input.gestureType)
             handled == callHandler(handler, cool.state)
             started == agentStartCooldown(handled.state, tm, clock)
         IN  IF cool.result
             THEN [response |-> createResponse(FALSE, "NONE", FALSE),
                   state |-> cool.state, timers |-> tm, emitted |-> "none"]
             ELSE IF handler = "undefined"
             THEN [response |-> createResponse(FALSE, "NONE", FALSE),
                   state |-> cool.state, timers |-> tm, emitted |-> "none"]
             ELSE IF handled.threw
             THEN [response |-> createResponse(FALSE, "NONE", FALSE),
                   state |-> handled.state, timers |-> tm, emitted |-> "none"]
             ELSE [response |-> createResponse(TRUE, handled.actionType, TRUE),
                   state |-> started.state, timers |-> started.timers,
                   emitted |-> "actionExecuted"]

\* the callback startCooldown schedules
autoClear(cs) ==
    IF cs.cooldownActive
    THEN [state |-> [cs EXCEPT !.cooldownActive = FALSE, !.cooldownEndTime = NULL],
          emitted |-> "cooldownEnded"]
    ELSE [state |-> cs, emitted |-> "none"]

\* reset(): a fresh currentState; the pending callbacks stay scheduled
agentReset(cs, tm) == [state |-> initialCurrentState, timers |-> tm]

AgentInputs ==
    [approved : BOOLEAN,
     gestureType : RegisteredGestures \cup {"NONE"} \cup InheritedReturning
                       \cup InheritedThrowing]

\* no call on the agent yet
NoAgentCall ==
    [op |-> "none", input |-> [approved |-> FALSE, gestureType |-> "NONE"],
     response |-> createResponse(FALSE, "NONE", FALSE), emitted |-> "none",
     before |-> initialCurrentState, set |-> NULL,
     window |-> NULL, prev |-> NULL]

\* no getState() yet
NoSnapshot == [taken |-> FALSE, alias |-> FALSE, value |-> createIdleState]

NoInput == [gesture |-> "NONE", confidence |-> "LOW", isStable |-> FALSE,
            cooldownActive |-> FALSE, cameraValid |-> FALSE]

NoOutput == [done |-> FALSE, approved |-> FALSE, reason |-> "none"]

----------------------------------------------------------------------------
(* Actions *)

Init ==
    /\ now = 0
    /\ landmarkHistory = <<>>
    /\ fistStartTime = NULL
    /\ lastGesture = "NONE"
    /\ cooldownActive = FALSE
    /\ cooldownTimer = NULL
    /\ isMuted = FALSE
    /\ systemState = createIdleState
    /\ timers = <<>>
    /\ hasListener = FALSE
    /\ published = <<>>
    /\ visualized = <<>>
    /\ call = NoCall
    /\ execFollow = "none"
    /\ lastExecTime = NULL
    /\ poseSince = NULL
    /\ frameAtNow = FALSE
    /\ windowStart = NULL
    /\ destroyed = FALSE
    /\ nApi = 0
    /\ arrived = <<>>
    /\ snapshot = NoSnapshot
    /\ currentState = initialCurrentState
    /\ agentTimers = <<>>
    /\ agentCall = NoAgentCall
    /\ unmatched = 0
    /\ fnIn = NoInput
    /\ fnOut = NoOutput

\* a frame with 21 or more landmarks is pushed on the history
Pushes(visionData) ==
    /\ validateVisionData(visionData)
    /\ visionData.handDetected = "true"
    /\ Len(PointsOf(visionData.landmarks.points)) >= 21

\* a frame that shows a closed fist: 21 landmarks, all five curl scores under
\* CURL_THRESHOLD
Qualifies(visionData) ==
    /\ ~visionData.isNull
    /\ visionData.handDetected = "true"
    /\ visionData.landmarks.type = "array"
    /\ \E c \in {calculateFingerCurls(PointsOf(visionData.landmarks.points))} :
           ~c.threw /\ ~c.isNull /\ \A k \in 1..5 : Curled(c.scores[k])

\* a frame arrives on the vision channel (or through injectVisionData)
ProcessVisionData(kind, fault, maxHistory) ==
    /\ ~destroyed
    /\ fault # "none" => hasListener
    /\ Pushes(VisionData(kind, now)) => Len(landmarkHistory) < maxHistory
    /\ \E R \in {processVisionData(Working, VisionData(kind, now), fault, now)} :
           /\ Commit(R)
           /\ call' = [op |-> "frame", arg |-> kind,
                       fault |-> IF R.thrownBy = "listener" THEN fault ELSE "none",
                       steps |-> R.steps,
                       classified |-> R.classified, gestureResult |-> R.gestureResult,
                       validated |-> R.validated, approved |-> R.approved,
                       executed |-> R.executed, caught |-> R.caught, escaped |-> R.escaped,
                       cooldownBefore |-> cooldownActive, mutedBefore |-> isMuted,
                       execBefore |-> lastExecTime]
           /\ lastExecTime' = IF R.executed THEN now ELSE lastExecTime
           /\ windowStart' = IF "startCooldown" \in Range(R.steps) THEN now ELSE windowStart
           /\ arrived' = IF "classify" \in Range(R.steps)
                          THEN ArrivedAfter(arrived, LandmarksOf(VisionData(kind, now)),
                                            R.landmarkHistory, now)
                          ELSE arrived
    /\ poseSince' = IF Qualifies(VisionData(kind, now))
                    THEN (IF poseSince = NULL THEN now ELSE poseSince)
                    ELSE NULL
    /\ frameAtNow' = TRUE
    /\ UNCHANGED << now, hasListener, destroyed, nApi, fnIn, fnOut, snapshot, currentState, agentTimers, agentCall >>

\* the +300 ms callback of _startCooldown: lines 527-533
downgradeCallback(S) ==
    IF S.cooldownActive
    THEN broadcastState([S EXCEPT !.systemState.actionState = "COOLDOWN",
                                  !.systemState.userMessage = "Cooldown active"], "none")
    ELSE S

TimerDowngrade ==
    /\ timers # <<>>
    /\ LET i == NextTimer(timers)
       IN  /\ timers[i].kind = "downgrade"
           /\ timers[i].due <= now
           /\ \E R \in {downgradeCallback([Working EXCEPT !.timers = RemoveAt(timers, i)])} :
                  Commit(R) /\ call' = CallOf("downgrade", R)
    /\ UNCHANGED << now, hasListener, lastExecTime, poseSince, frameAtNow, windowStart, destroyed, nApi, arrived, fnIn, fnOut, snapshot, currentState, agentTimers, agentCall >>

\* the +1500 ms callback of _startCooldown: lines 536-542; 'cooldownEnd' is
\* emitted after the broadcast, if that did not throw
CooldownEnd(S) == IF S.threw THEN S ELSE [S EXCEPT !.steps = Append(S.steps, "cooldownEnd")]

\* the callback if it cleared the flag and left the shown state alone
expiryCallbackKeepsShown(S) ==
    CooldownEnd(broadcastState([S EXCEPT !.cooldownActive = FALSE], "none"))

\* the callback without its first statement
expiryCallbackKeepsFlag(S) ==
    CooldownEnd(broadcastState([S EXCEPT !.systemState.actionState = "NONE",
                                         !.systemState.userMessage = "Ready"], "none"))

expiryCallback(S) ==
    CooldownEnd(broadcastState([S EXCEPT !.cooldownActive = FALSE,
                                         !.systemState.actionState = "NONE",
                                         !.systemState.userMessage = "Ready"], "none"))

TimerExpiry ==
    /\ timers # <<>>
    /\ LET i == NextTimer(timers)
       IN  /\ timers[i].kind = "expiry"
           /\ timers[i].due <= now
           /\ \E R \in {expiryCallback([Working EXCEPT !.timers = RemoveAt(timers, i)])} :
                  Commit(R) /\ call' = CallOf("expiry", R)
    /\ UNCHANGED << now, hasListener, lastExecTime, poseSince, frameAtNow, windowStart, destroyed, nApi, arrived, fnIn, fnOut, snapshot, currentState, agentTimers, agentCall >>

\* the callback setTestState(0) schedules: lines 724-728
TimerTestExpiry ==
    /\ timers # <<>>
    /\ LET i == NextTimer(timers)
       IN  /\ timers[i].kind = "testExpiry"
           /\ timers[i].due <= now
           /\ \E R \in {broadcastState(
                  [Working EXCEPT !.timers = RemoveAt(timers, i),
                                  !.cooldownActive = FALSE,
                                  !.systemState.actionState = "NONE"], "none")} :
                  Commit(R) /\ call' = CallOf("testExpiry", R)
    /\ UNCHANGED << now, hasListener, lastExecTime, poseSince, frameAtNow, windowStart, destroyed, nApi, arrived, fnIn, fnOut, snapshot, currentState, agentTimers, agentCall >>

\* setTestState(stateNum): lines 657-737
TestStates == {0, 1, 2, 3, 4, 5, 6, 9}

setTestState(S, stateNum, clock) ==
    LET T ==
        CASE stateNum = 1 -> [S EXCEPT !.systemState = createIdleState]
          [] stateNum = 2 -> [S EXCEPT !.systemState =
                 createActiveState("CLOSED_FIST", "LOW", FALSE, "NONE", "Gesture unclear")]
          [] stateNum = 3 -> [S EXCEPT !.systemState =
                 createActiveState("CLOSED_FIST", "MEDIUM", FALSE, "NONE", "Hold gesture steady")]
          [] stateNum = 4 -> [S EXCEPT !.systemState =
                 createActiveState("CLOSED_FIST", "HIGH", FALSE, "READY", "Almost there...")]
          [] stateNum = 5 -> [S EXCEPT !.systemState =
                 createActiveState("CLOSED_FIST", "HIGH", TRUE, "READY", "Ready to execute")]
          [] stateNum = 6 ->
                 startCooldown(
                   [S EXCEPT !.isMuted = ~S.isMuted,
                             !.systemState =
                                 createActiveState("CLOSED_FIST", "HIGH", TRUE, "EXECUTED",
                                                   IF ~S.isMuted THEN "Muted" ELSE "Unmuted")],
                   "none", clock)
          [] stateNum = 0 ->
                 [S EXCEPT !.cooldownActive = TRUE,
                           !.systemState =
                               createActiveState("CLOSED_FIST", "HIGH", FALSE, "COOLDOWN",
                                                 "Cooldown active"),
                           !.timers = Append(S.timers, [kind |-> "testExpiry",
                                                        due |-> clock + cooldownDuration])]
          [] stateNum = 9 -> [S EXCEPT !.systemState =
                 createErrorState("System paused due to uncertainty")]
          [] OTHER -> S
    IN  broadcastState(T, "none")

SetTestState(stateNum) ==
    /\ nApi < MaxApi
    /\ ~destroyed
    /\ \E R \in {setTestState(Working, stateNum, now)} :
           Commit(R) /\ call' = CallOf("setTestState", R)
    /\ nApi' = nApi + 1
    /\ windowStart' = IF stateNum \in {0, 6} THEN now ELSE windowStart
    /\ UNCHANGED << now, hasListener, lastExecTime, poseSince, frameAtNow, destroyed, arrived, fnIn, fnOut, snapshot, currentState, agentTimers, agentCall >>

\* reset(): lines 763-772
reset(S) ==
    broadcastState(
        [S EXCEPT !.landmarkHistory = interpreterReset.landmarkHistory,
                  !.fistStartTime = interpreterReset.fistStartTime,
                  !.lastGesture = interpreterReset.lastGesture,
                  !.cooldownActive = FALSE,
                  !.timers = clearTimeout(S.timers, S.cooldownTimer),
                  !.isMuted = FALSE,
                  !.systemState = createIdleState], "none")

Reset ==
    /\ nApi < MaxApi
    /\ ~destroyed
    /\ \E R \in {reset(Working)} : Commit(R) /\ call' = CallOf("reset", R)
    /\ nApi' = nApi + 1
    /\ poseSince' = NULL
    /\ windowStart' = NULL
    /\ arrived' = <<>>
    /\ UNCHANGED << now, hasListener, lastExecTime, frameAtNow, destroyed, fnIn, fnOut, snapshot, currentState, agentTimers, agentCall >>

\* destroy(): lines 777-782
destroy(S) ==
    [S EXCEPT !.closed = TRUE, !.timers = clearTimeout(S.timers, S.cooldownTimer)]

Destroy ==
    /\ nApi < MaxApi
    /\ ~destroyed
    /\ \E R \in {destroy(Working)} : Commit(R) /\ call' = CallOf("destroy", R)
    /\ destroyed' = TRUE
    /\ nApi' = nApi + 1
    /\ UNCHANGED << now, hasListener, lastExecTime, poseSince, frameAtNow, windowStart,
                    arrived, fnIn, fnOut, snapshot, currentState, agentTimers, agentCall >>

\* addEventListener(callback): lines 742-744
AddEventListener ==
    /\ ~hasListener
    /\ hasListener' = TRUE
    /\ UNCHANGED << now, landmarkHistory, fistStartTime, lastGesture, cooldownActive,
                    cooldownTimer, isMuted, systemState, timers, published, visualized, call,
                    execFollow, lastExecTime, poseSince, frameAtNow, windowStart, destroyed, nApi, arrived, fnIn, fnOut, snapshot, currentState, agentTimers, agentCall, unmatched >>

\* the clock moves on by Tick, or to the next due time if that is sooner; a
\* callback that is due runs before the clock passes it
Min(a, b) == IF a <= b THEN a ELSE b

NextInstant(tick) ==
    IF timers = <<>> THEN now + tick
    ELSE Min(now + tick, timers[NextTimer(timers)].due)

AdvanceBy(tick, limit) ==
    /\ NextInstant(tick) > now
    /\ NextInstant(tick) <= limit
    /\ now' = NextInstant(tick)
    /\ published' = <<>>
    /\ visualized' = <<>>
    /\ call' = NoCall
    /\ frameAtNow' = FALSE
    /\ UNCHANGED << landmarkHistory, fistStartTime, lastGesture, cooldownActive,
                    cooldownTimer, isMuted, systemState, timers, hasListener,
                    execFollow, lastExecTime, poseSince, windowStart, destroyed, nApi, arrived, fnIn, fnOut, snapshot, currentState, agentTimers, agentCall, unmatched >>

Advance == AdvanceBy(Tick, MaxTime)

AdvanceSwipe == AdvanceBy(SwipeTick, SwipeMaxTime)

AdvanceDwell == AdvanceBy(DwellTick, DwellMaxTime)

\* a frame whose timestamp is later than that of the frame before it
ProcessLaterFrame(kind) ==
    /\ ~frameAtNow
    /\ ProcessVisionData(kind, "none", DwellMaxHistory)

NextFrames ==
    \/ \E kind \in FrameKinds, fault \in Faults : ProcessVisionData(kind, fault, MaxHistory)
    \/ TimerDowngrade
    \/ TimerExpiry
    \/ AddEventListener
    \/ Advance

NextApi ==
    \/ \E kind \in ApiKinds : ProcessVisionData(kind, "none", MaxHistory)
    \/ TimerDowngrade
    \/ TimerExpiry
    \/ TimerTestExpiry
    \/ \E n \in TestStates : SetTestState(n)
    \/ Reset
    \/ Destroy
    \/ Advance

\* the frames of the runs in which fist actions and swipe actions are both
\* executed: no hand, a fist, and an open hand moved aside
MuteKinds == {"noHand", "fist", "openRight"}
MuteMaxHistory == 5

NextMute ==
    \/ \E kind \in MuteKinds : ProcessVisionData(kind, "none", MuteMaxHistory)
    \/ TimerDowngrade
    \/ TimerExpiry
    \/ Reset
    \/ Advance

\* a getState that hands out the state object itself
getStateByReference(S) == [taken |-> TRUE, alias |-> TRUE, value |-> S.systemState]

\* getState(): a new object with the fields of systemState; every field is a
\* string or a boolean, so the copy shares nothing with the state
getState(S) == [taken |-> TRUE, alias |-> FALSE, value |-> S.systemState]

GetState ==
    /\ ~snapshot.taken \/ snapshot.value # systemState
    /\ snapshot' = getState(Working)
    /\ call' = [NoCall EXCEPT !.op = "getState"]
    /\ published' = <<>>
    /\ visualized' = <<>>
    /\ UNCHANGED << now, landmarkHistory, fistStartTime, lastGesture, cooldownActive,
                    cooldownTimer, isMuted, systemState, timers, hasListener, execFollow,
                    lastExecTime, poseSince, frameAtNow, windowStart, destroyed, nApi,
                    arrived, fnIn, fnOut, currentState, agentTimers, agentCall, unmatched >>

\* the fields the caller of getState() overwrites in the object it got
SnapshotFields == {"detectedGesture", "actionState", "userMessage"}

Overwrite(state, field) ==
    CASE field = "detectedGesture" -> [state EXCEPT !.detectedGesture = "TAMPERED"]
      [] field = "actionState" -> [state EXCEPT !.actionState = "TAMPERED"]
      [] field = "userMessage" -> [state EXCEPT !.userMessage = "TAMPERED"]

\* the caller writes to the object getState() returned; the write reaches
\* systemState only if the object is the state itself
MutateSnapshot(field) ==
    /\ snapshot.taken
    /\ snapshot.value # Overwrite(snapshot.value, field)
    /\ snapshot' = [snapshot EXCEPT !.value = Overwrite(snapshot.value, field)]
    /\ systemState' = IF snapshot.alias THEN Overwrite(systemState, field) ELSE systemState
    /\ call' = [NoCall EXCEPT !.op = "mutateSnapshot", !.arg = field]
    /\ published' = <<>>
    /\ visualized' = <<>>
    /\ UNCHANGED << now, landmarkHistory, fistStartTime, lastGesture, cooldownActive,
                    cooldownTimer, isMuted, timers, hasListener, execFollow,
                    lastExecTime, poseSince, frameAtNow, windowStart, destroyed, nApi,
                    arrived, fnIn, fnOut, currentState, agentTimers, agentCall, unmatched >>

\* the frames of the runs with getState()
SnapshotKinds == {"noHand", "fist"}

NextSnapshot ==
    \/ \E kind \in SnapshotKinds : ProcessVisionData(kind, "none", MaxHistory)
    \/ TimerDowngrade
    \/ TimerExpiry
    \/ GetState
    \/ \E field \in SnapshotFields : MutateSnapshot(field)
    \/ Advance

NextSwipe ==
    \/ \E kind \in SwipeKinds : ProcessVisionData(kind, "none", SwipeMaxHistory)
    \/ TimerDowngrade
    \/ AdvanceSwipe

NextDwell ==
    \/ \E kind \in DwellKinds : ProcessLaterFrame(kind)
    \/ TimerDowngrade
    \/ AdvanceDwell

----------------------------------------------------------------------------
(* GestureInterpreter on its own: update() and reset() called directly *)

\* the landmarks objects update() may be given: none, one without points, or
\* the landmarks of a frame
Landmarks(kind, timestamp) ==
    CASE kind = "missing" ->
            [isNull |-> TRUE, hasPoints |-> FALSE, points |-> EmptyShape, timestamp |-> timestamp]
      [] kind = "noPoints" ->
            [isNull |-> FALSE, hasPoints |-> FALSE, points |-> EmptyShape, timestamp |-> timestamp]
      [] OTHER -> [LandmarksOf(VisionData(kind, timestamp)) EXCEPT !.timestamp = timestamp]

\* landmarks that show a closed fist: 21 points, all five curl scores under
\* CURL_THRESHOLD
ClosedFist(landmarks) ==
    /\ ~landmarks.isNull
    /\ landmarks.hasPoints
    /\ \E c \in {calculateFingerCurls(PointsOf(landmarks.points))} :
           ~c.threw /\ ~c.isNull /\ \A k \in 1..5 : Curled(c.scores[k])

\* the static poses, and the instants at which they are shown: the dwell
\* thresholds and the millisecond before each
\* the landmarks update() rejects at line 78: none, no points, under 21 points
InvalidKinds == {"missing", "noPoints", "short"}

PoseKinds == {"missing", "noPoints", "short", "fist", "open", "holeTip"}
PoseInstants == {0, 249, 250, 499, 500}

\* the poses of the runs with palm motion, a frame every MotionTick or sooner
MotionKinds == {"short", "open", "openRight", "fistRight"}
MotionTick == 250
MotionMaxTime == 500
MotionMaxHistory == 5

\* gestureInterpreter.update(landmarks); the timestamp is the clock's, or is
\* left out (0) and then taken from the clock by line 86
Update(kind, maxHistory) ==
    \E timestamp \in {0, now} :
      \E lm \in {Landmarks(kind, timestamp)} :
        /\ (~lm.isNull /\ lm.hasPoints /\ lm.points.len >= 21)
               => Len(landmarkHistory) < maxHistory
        /\ \E R \in {update(lm, landmarkHistory, fistStartTime, lastGesture, now)} :
               /\ landmarkHistory' = R.landmarkHistory
               /\ fistStartTime' = R.fistStartTime
               /\ lastGesture' = R.lastGesture
               /\ call' = [NoCall EXCEPT !.op = "update", !.arg = kind,
                                         !.classified = ~R.threw,
                                         !.gestureResult = R.res, !.escaped = R.threw]
               /\ arrived' = ArrivedAfter(arrived, lm, R.landmarkHistory, now)
        /\ poseSince' = IF ClosedFist(lm)
                        THEN (IF poseSince = NULL THEN now ELSE poseSince)
                        ELSE NULL
        /\ frameAtNow' = TRUE
        /\ UNCHANGED << now, cooldownActive, cooldownTimer, isMuted, systemState, timers,
                        hasListener, published, visualized, execFollow, lastExecTime, windowStart,
                        destroyed, nApi, fnIn, fnOut, snapshot, currentState, agentTimers, agentCall, unmatched >>

\* update() on a frame later than the one before it
UpdateLater(kind) == ~frameAtNow /\ Update(kind, DwellMaxHistory)

\* gestureInterpreter.reset(): lines 283-287
InterpreterReset ==
    /\ landmarkHistory # <<>> \/ fistStartTime # NULL \/ lastGesture # "NONE"
    /\ landmarkHistory' = interpreterReset.landmarkHistory
    /\ fistStartTime' = interpreterReset.fistStartTime
    /\ lastGesture' = interpreterReset.lastGesture
    /\ call' = [NoCall EXCEPT !.op = "interpreterReset"]
    /\ arrived' = <<>>
    /\ poseSince' = NULL
    /\ UNCHANGED << now, cooldownActive, cooldownTimer, isMuted, systemState, timers,
                    hasListener, published, visualized, execFollow, lastExecTime, frameAtNow,
                    windowStart, destroyed, nApi, fnIn, fnOut, snapshot, currentState, agentTimers, agentCall, unmatched >>

\* the clock moves on to a later one of the instants
AdvanceTo(instants) ==
    /\ \E t \in instants : t > now /\ now' = t
    /\ call' = NoCall
    /\ frameAtNow' = FALSE
    /\ UNCHANGED << landmarkHistory, fistStartTime, lastGesture, cooldownActive,
                    cooldownTimer, isMuted, systemState, timers, hasListener, published, visualized,
                    execFollow, lastExecTime, poseSince, windowStart, destroyed, nApi,
                    arrived, fnIn, fnOut, snapshot, currentState, agentTimers, agentCall, unmatched >>

AdvancePose == AdvanceTo(PoseInstants)

AdvanceMotion == AdvanceBy(MotionTick, MotionMaxTime)

\* a long stream of frames, one valid frame every StreamTick: open hands, at
\* most one of them moved aside on the history at a time, and invalid frames
\* in between
StreamKinds == {"open", "openRight"}
StreamTick == 1
StreamMaxTime == 33

UpdateStream(kind) ==
    /\ ~frameAtNow
    /\ kind = "openRight" =>
           \A i \in 1..Len(landmarkHistory) : landmarkHistory[i].points.cx # SwipeShift
    /\ Update(kind, HISTORY_SIZE + 1)

UpdateInvalid(kind) == frameAtNow /\ Update(kind, HISTORY_SIZE + 1)

AdvanceStream == frameAtNow /\ AdvanceBy(StreamTick, StreamMaxTime)

NextStream ==
    \/ \E kind \in StreamKinds : UpdateStream(kind)
    \/ \E kind \in InvalidKinds : UpdateInvalid(kind)
    \/ InterpreterReset
    \/ AdvanceStream

NextPose ==
    \/ \E kind \in PoseKinds : UpdateLater(kind)
    \/ InterpreterReset
    \/ AdvancePose

NextMotion ==
    \/ \E kind \in MotionKinds : Update(kind, MotionMaxHistory)
    \/ InterpreterReset
    \/ AdvanceMotion

----------------------------------------------------------------------------
(* update() as a function of the frames of one window: the frames before the *)
(* last show an open hand at the origin, the last one shows it moved by      *)
(* (dx, dy) thousandths; timing gives the timestamps in milliseconds         *)

\* four or five frames; all at one instant, evenly spread over 200 ms, one,
\* two or three frames within the last 300 ms, and a window of 100 ms
Timings == { << 1000, 1050, 1100, 1200 >>,
             << 1000, 1000, 1000, 1000, 1000 >>,
             << 1000, 1050, 1100, 1150, 1200 >>,
             << 1000, 1000, 1000, 1000, 1400 >>,
             << 1000, 1000, 1000, 1100, 1401 >>,
             << 1000, 1000, 1100, 1200, 1400 >>,
             << 1000, 1000, 1300, 1350, 1400 >> }

\* displacements at and next to the thresholds of speed and of direction
Distances == {0, 20, 29, 30, 31, 45, 60, 61, 90, 91, 135, 136, 500}
Displacements == Distances \cup {-x : x \in Distances}

WindowInputs == [timing : Timings, dx : Displacements, dy : Displacements]

\* the history before the last frame of the input, and the last frame
HistoryBefore(in) ==
    [i \in 1..(Len(in.timing) - 1) |->
        [points |-> Shape(21, 0, 0, OpenSpread, 0), timestamp |-> in.timing[i]]]

LastFrame(in) ==
    [isNull |-> FALSE, hasPoints |-> TRUE, points |-> Shape(21, in.dx, in.dy, OpenSpread, 0),
     timestamp |-> in.timing[Len(in.timing)]]

NoWindowOutput == [done |-> FALSE, threw |-> FALSE, res |-> noneResult, landmarkHistory |-> <<>>]

InitWindow ==
    /\ now = 0
    /\ landmarkHistory = <<>>
    /\ fistStartTime = NULL
    /\ lastGesture = "NONE"
    /\ cooldownActive = FALSE
    /\ cooldownTimer = NULL
    /\ isMuted = FALSE
    /\ systemState = createIdleState
    /\ timers = <<>>
    /\ hasListener = FALSE
    /\ published = <<>>
    /\ visualized = <<>>
    /\ call = NoCall
    /\ execFollow = "none"
    /\ lastExecTime = NULL
    /\ poseSince = NULL
    /\ frameAtNow = FALSE
    /\ windowStart = NULL
    /\ destroyed = FALSE
    /\ nApi = 0
    /\ arrived = <<>>
    /\ snapshot = NoSnapshot
    /\ currentState = initialCurrentState
    /\ agentTimers = <<>>
    /\ agentCall = NoAgentCall
    /\ unmatched = 0
    /\ fnIn \in WindowInputs
    /\ fnOut = NoWindowOutput

\* update() on the last frame of the input, the frames before it on the history
UpdateWindow ==
    /\ ~fnOut.done
    /\ \E R \in {update(LastFrame(fnIn), HistoryBefore(fnIn), NULL, "NONE", now)} :
           fnOut' = [done |-> TRUE, threw |-> R.threw, res |-> R.res,
                     landmarkHistory |-> R.landmarkHistory]
    /\ UNCHANGED << now, landmarkHistory, fistStartTime, lastGesture, cooldownActive,
                    cooldownTimer, isMuted, systemState, timers, hasListener, published, visualized,
                    call, execFollow, lastExecTime, poseSince, frameAtNow, windowStart,
                    destroyed, nApi, arrived, fnIn, snapshot, currentState, agentTimers, agentCall, unmatched >>

----------------------------------------------------------------------------
(* _broadcastState on every system state: the state, then what is posted *)

VisualInputs ==
    { State(status, gesture, confidence, approved, action, "")
        : status \in SystemStatus, gesture \in GestureType,
          confidence \in ConfidenceLevel \cup {"UNKNOWN"}, approved \in BOOLEAN,
          action \in ActionState }

InitVisual ==
    /\ now = 0
    /\ landmarkHistory = <<>>
    /\ fistStartTime = NULL
    /\ lastGesture = "NONE"
    /\ cooldownActive = FALSE
    /\ cooldownTimer = NULL
    /\ isMuted = FALSE
    /\ systemState \in VisualInputs
    /\ timers = <<>>
    /\ hasListener = FALSE
    /\ published = <<>>
    /\ visualized = <<>>
    /\ call = NoCall
    /\ execFollow = "none"
    /\ lastExecTime = NULL
    /\ poseSince = NULL
    /\ frameAtNow = FALSE
    /\ windowStart = NULL
    /\ destroyed = FALSE
    /\ nApi = 0
    /\ arrived = <<>>
    /\ snapshot = NoSnapshot
    /\ currentState = initialCurrentState
    /\ agentTimers = <<>>
    /\ agentCall = NoAgentCall
    /\ unmatched = 0
    /\ fnIn = NoInput
    /\ fnOut = NoOutput

\* _broadcastState() on the current state: lines 602-611
BroadcastState ==
    /\ published = <<>>
    /\ \E R \in {broadcastState(Working, "none")} :
           Commit(R) /\ call' = CallOf("broadcast", R)
    /\ UNCHANGED << now, hasListener, lastExecTime, poseSince, frameAtNow, windowStart,
                    destroyed, nApi, arrived, fnIn, fnOut, snapshot, currentState, agentTimers, agentCall >>

----------------------------------------------------------------------------
(* SafetyValidator.validate as a pure function: every input, then its result *)

ValidatorInputs ==
    [gesture : GestureType, confidence : ConfidenceLevel \cup {"UNKNOWN"},
     isStable : BOOLEAN, cooldownActive : BOOLEAN, cameraValid : BOOLEAN]

InitValidator ==
    /\ now = 0
    /\ landmarkHistory = <<>>
    /\ fistStartTime = NULL
    /\ lastGesture = "NONE"
    /\ cooldownActive = FALSE
    /\ cooldownTimer = NULL
    /\ isMuted = FALSE
    /\ systemState = createIdleState
    /\ timers = <<>>
    /\ hasListener = FALSE
    /\ published = <<>>
    /\ visualized = <<>>
    /\ call = NoCall
    /\ execFollow = "none"
    /\ lastExecTime = NULL
    /\ poseSince = NULL
    /\ frameAtNow = FALSE
    /\ windowStart = NULL
    /\ destroyed = FALSE
    /\ nApi = 0
    /\ arrived = <<>>
    /\ snapshot = NoSnapshot
    /\ currentState = initialCurrentState
    /\ agentTimers = <<>>
    /\ agentCall = NoAgentCall
    /\ unmatched = 0
    /\ fnIn \in ValidatorInputs
    /\ fnOut = NoOutput

Validate ==
    /\ ~fnOut.done
    /\ \E r \in {validate(fnIn)} :
           fnOut' = [done |-> TRUE, approved |-> r.approved, reason |-> r.reason]
    /\ UNCHANGED << now, landmarkHistory, fistStartTime, lastGesture, cooldownActive,
                    cooldownTimer, isMuted, systemState, timers, hasListener, published, visualized,
                    call, execFollow, lastExecTime, poseSince, frameAtNow, windowStart, destroyed, nApi, arrived, fnIn, snapshot, currentState, agentTimers, agentCall, unmatched >>

----------------------------------------------------------------------------
(* ActionExecutionAgent: execute(), reset(), the auto-clear callbacks, the clock *)

\* the clock of the agent runs to AgentMaxTime in steps of AgentTick ms, or
\* less to stop at a callback; at most MaxAgentTimers callbacks are pending
AgentTick == 500

AgentMaxTime == 3000

MaxAgentTimers == 3

orchestratorVars ==
    << landmarkHistory, fistStartTime, lastGesture, cooldownActive, cooldownTimer,
       isMuted, systemState, timers, hasListener, published, visualized, call,
       execFollow, lastExecTime, poseSince, frameAtNow, windowStart, destroyed,
       nApi, arrived, fnIn, fnOut, snapshot, unmatched >>

\* execute(input) at the current instant
AgentExecute(input) ==
    /\ Len(agentTimers) < MaxAgentTimers
    /\ \E R \in {agentExecute(input, currentState, agentTimers, now)} :
           /\ currentState' = R.state
           /\ agentTimers' = R.timers
           /\ agentCall' = [op |-> "execute", input |-> input,
                            response |-> R.response, emitted |-> R.emitted,
                            before |-> currentState, set |-> NULL,
                            window |-> IF R.response.actionExecuted THEN now
                                       ELSE agentCall.window,
                            prev |-> agentCall.window]
    /\ UNCHANGED now
    /\ UNCHANGED orchestratorVars

\* reset() at the current instant
AgentReset ==
    /\ currentState # initialCurrentState
    /\ \E R \in {agentReset(currentState, agentTimers)} :
           /\ currentState' = R.state
           /\ agentTimers' = R.timers
    /\ agentCall' = [NoAgentCall EXCEPT !.op = "reset", !.before = currentState,
                                        !.prev = agentCall.window]
    /\ UNCHANGED now
    /\ UNCHANGED orchestratorVars

\* the oldest pending auto-clear callback runs once it is due
AgentAutoClear ==
    /\ agentTimers # <<>>
    /\ Head(agentTimers).due <= now
    /\ \E R \in {autoClear(currentState)} :
           /\ currentState' = R.state
           /\ agentCall' = [NoAgentCall EXCEPT !.op = "timer", !.emitted = R.emitted,
                                               !.before = currentState,
                                               !.set = Head(agentTimers).set,
                                               !.window = agentCall.window,
                                               !.prev = agentCall.window]
    /\ agentTimers' = Tail(agentTimers)
    /\ UNCHANGED now
    /\ UNCHANGED orchestratorVars

\* time passes, up to the next callback at most
AgentAdvance ==
    /\ now < AgentMaxTime
    /\ agentTimers # <<>> => Head(agentTimers).due > now
    /\ now' = IF agentTimers = <<>> THEN now + AgentTick
              ELSE Min(now + AgentTick, Head(agentTimers).due)
    /\ agentCall' = [NoAgentCall EXCEPT !.window = agentCall.window,
                                        !.prev = agentCall.window]
    /\ UNCHANGED << currentState, agentTimers >>
    /\ UNCHANGED orchestratorVars

NextAgent ==
    \/ \E input \in AgentInputs : AgentExecute(input)
    \/ AgentReset
    \/ AgentAutoClear
    \/ AgentAdvance

----------------------------------------------------------------------------
(* Specifications *)

\* frames, cooldown timers and listeners: no reset(), no setTestState()
SpecFrames == Init /\ [][NextFrames]_vars

\* frames, every timer, reset(), setTestState() and destroy(); no call is made
\* on a destroyed orchestrator
Spec == Init /\ [][NextApi]_vars

\* frames close together in time, poses that move: the runs that make swipes
SpecSwipe == Init /\ [][NextSwipe]_vars

\* frames that make fist actions and swipe actions, the cooldown timers and
\* reset()
SpecMute == Init /\ [][NextMute]_vars

\* frames, the cooldown timers, getState() and a caller that writes to the
\* object it was given
SpecSnapshot == Init /\ [][NextSnapshot]_vars

\* frames with increasing timestamps, one every DwellTick at most
SpecDwell == Init /\ [][NextDwell]_vars

\* validate applied to every input
SpecValidator == InitValidator /\ [][Validate]_vars

\* update() called directly with static poses, each later than the one before
SpecPose == Init /\ [][NextPose]_vars

\* update() called directly with poses that move
SpecMotion == Init /\ [][NextMotion]_vars

\* _broadcastState applied to every system state
SpecVisual == InitVisual /\ [][BroadcastState]_vars

\* the ActionExecutionAgent under execute(), reset() and its callbacks
SpecAgent == Init /\ [][NextAgent]_vars

\* update() applied to every window of frames
SpecWindow == InitWindow /\ [][UpdateWindow]_vars

\* update() called directly on a stream longer than HISTORY_SIZE
SpecStream == Init /\ [][NextStream]_vars

----------------------------------------------------------------------------
(* Properties *)

\* step a comes before step b in the trace of a handler
Before(steps, a, b) ==
    \E i, j \in 1..Len(steps) : i < j /\ steps[i] = a /\ steps[j] = b

\* the frame just processed came less than cooldownDuration after a frame that
\* executed an action
WindowOpen ==
    /\ call.op = "frame"
    /\ call.execBefore # NULL
    /\ now - call.execBefore < cooldownDuration

\* the classifier's answer to the frame just processed was a HIGH, stable gesture
HighStable ==
    /\ call.classified
    /\ call.gestureResult.gesture # "NONE"
    /\ call.gestureResult.confidence = "HIGH"
    /\ call.gestureResult.isStable

\* C1 (SpecFrames): a frame processed less than 1500 ms after a frame that
\* executed an action executes nothing, and if its gesture is HIGH and stable
\* the state it publishes is the cooldown denial: safetyApproved false,
\* actionState COOLDOWN, userMessage 'Cooldown active'.
C1_CooldownWindow ==
    WindowOpen =>
        /\ ~call.executed
        /\ isMuted = call.mutedBefore
        /\ HighStable =>
               /\ published # <<>>
               /\ published[1] = createActiveState(call.gestureResult.gesture, "HIGH",
                                                   FALSE, "COOLDOWN", "Cooldown active")

\* a fist still held 500 ms after the frame that executed is denied
C1_Witness ==
    /\ WindowOpen
    /\ now > call.execBefore
    /\ HighStable
    /\ call.gestureResult.gesture = "CLOSED_FIST"
    /\ published[1].actionState = "COOLDOWN"
    /\ ~call.executed

\* C2 (SpecSwipe): a frame executes an action (isMuted toggled or a navigation
\* result produced) only if in that frame the classifier returned a gesture
\* other than NONE with HIGH confidence and isStable, and the validator
\* approved with cooldownActive false; classification comes before
\* validation, validation before execution, execution before the broadcast.
C2_ExecutionGated ==
    (call.op = "frame" /\ (call.executed \/ isMuted # call.mutedBefore)) =>
        /\ HighStable
        /\ call.validated
        /\ call.approved
        /\ ~call.cooldownBefore
        /\ Before(call.steps, "classify", "validate")
        /\ Before(call.steps, "validate", "execute")
        /\ Before(call.steps, "execute", "broadcast")
        /\ ~Before(call.steps, "broadcast", "execute")

\* a swipe executed through the whole pipeline
C2_Witness ==
    /\ call.op = "frame"
    /\ call.executed
    /\ call.gestureResult.gesture = "SWIPE_RIGHT"
    /\ call.steps = << "classify", "validate", "execute", "startCooldown", "broadcast" >>
    /\ published[1].actionState = "EXECUTED"

\* C3 (SpecDwell): a frame is classified CLOSED_FIST with HIGH confidence only
\* if every frame delivered since the dwell started, hand-absent and malformed
\* frames included, showed a closed fist and the first of them is at least
\* 500 ms older than this frame.
C3_UninterruptedDwell ==
    (/\ call.op = "frame"
     /\ call.classified
     /\ call.gestureResult.gesture = "CLOSED_FIST"
     /\ call.gestureResult.confidence = "HIGH") =>
        /\ poseSince # NULL
        /\ now - poseSince >= FIST_STABILITY_THRESHOLD_MS

\* C4 (SpecValidator): validate decides in the order camera, cooldown,
\* confidence, stability; approved iff the reason is STABLE; with all four
\* failures at once the reason is CAMERA_INVALID.
C4_ValidatorPriority ==
    fnOut.done =>
        /\ ~fnIn.cameraValid => fnOut.reason = "CAMERA_INVALID"
        /\ (fnIn.cameraValid /\ fnIn.cooldownActive) => fnOut.reason = "COOLDOWN_ACTIVE"
        /\ (fnIn.cameraValid /\ ~fnIn.cooldownActive /\ fnIn.confidence # "HIGH")
               => fnOut.reason = "LOW_CONFIDENCE"
        /\ (fnIn.cameraValid /\ ~fnIn.cooldownActive /\ fnIn.confidence = "HIGH"
               /\ ~fnIn.isStable) => fnOut.reason = "GESTURE_UNSTABLE"
        /\ (fnIn.cameraValid /\ ~fnIn.cooldownActive /\ fnIn.confidence = "HIGH"
               /\ fnIn.isStable) => fnOut.reason = "STABLE"
        /\ fnOut.approved <=> fnOut.reason = "STABLE"

\* all four failures at once
C4_Witness ==
    /\ fnOut.done
    /\ ~fnIn.cameraValid
    /\ fnIn.cooldownActive
    /\ fnIn.confidence # "HIGH"
    /\ ~fnIn.isStable
    /\ fnOut.reason = "CAMERA_INVALID"
    /\ ~fnOut.approved

\* C5 (SpecFrames): every published state with systemStatus ERROR has
\* safetyApproved false and actionState NONE, re-broadcasts by the cooldown
\* timer callbacks included.
C5_ErrorIsSafe ==
    \A i \in 1..Len(published) :
        published[i].systemStatus = "ERROR" =>
            /\ ~published[i].safetyApproved
            /\ published[i].actionState = "NONE"

\* C6 (SpecFrames): a call of processVisionData that ends in the catch branch
\* executed no action: isMuted is unchanged, no cooldown window was started
\* and no cooldown timer was scheduled.
C6_NoActionOnExceptionalPath ==
    (call.op = "frame" /\ call.caught) =>
        /\ ~call.executed
        /\ isMuted = call.mutedBefore
        /\ "startCooldown" \notin Range(call.steps)
        /\ cooldownActive = call.cooldownBefore

\* C7 (SpecSwipe): no well-formed frame ends in ERROR because of a faulting
\* frame delivered before it.
WellFormedKinds == {"fist", "open", "openRight"}

C7_CleanResume ==
    (call.op = "frame" /\ call.arg \in WellFormedKinds) =>
        /\ ~call.caught
        /\ \A i \in 1..Len(published) : published[i].systemStatus # "ERROR"

\* C8 (SpecFrames): a frame that is null, has a non-boolean handDetected, or
\* has handDetected true with landmarks missing, not an array or an empty
\* array is published as ERROR, without the classifier and without an action.
MalformedKinds == {"null", "badFlag", "noLandmarks", "notArray", "empty"}

C8_MalformedRejected ==
    (call.op = "frame" /\ call.arg \in MalformedKinds) =>
        /\ published # <<>>
        /\ published[1].systemStatus = "ERROR"
        /\ "classify" \notin Range(call.steps)
        /\ ~call.executed

\* C9 (SpecFrames): the first actionState published after EXECUTED that is not
\* EXECUTED is COOLDOWN, never NONE or READY.
C9_ExecutedThenCooldown ==
    execFollow \in {"none", "pending", "COOLDOWN"}

\* C10 (Spec): _startCooldown is never invoked while cooldownActive is true,
\* and at most one +1500 ms expiry callback is pending.
C10_NoOverlap ==
    /\ "startCooldown" \in Range(call.steps) => ~call.cooldownBefore
    /\ Cardinality({i \in 1..Len(timers) : timers[i].kind = "expiry"}) <= 1

\* what a cooldown timer callback may change
Shown == << cooldownActive, systemState.actionState, systemState.userMessage >>

\* C11 (Spec): a cooldown timer callback changes cooldownActive, actionState
\* or userMessage only for the window it was scheduled for: the last window
\* started, not ended by reset(), 300 ms old for the downgrade and
\* cooldownDuration old for an expiry.
C11_CallbackOwnWindow ==
    [][(call'.op \in {"downgrade", "expiry", "testExpiry"} /\ Shown' # Shown) =>
           /\ windowStart # NULL
           /\ now - windowStart =
                  IF call'.op = "downgrade" THEN executedDisplayMs ELSE cooldownDuration]_vars

\* C12 (Spec): after reset() the published state is the IDLE state,
\* cooldownActive and isMuted are false, the classifier's history is empty and
\* its dwell start is null, and no callback scheduled before the reset is left
\* to fire.
C12_ResetClearsAll ==
    call.op = "reset" =>
        /\ published = << createIdleState >>
        /\ systemState = createIdleState
        /\ ~cooldownActive
        /\ ~isMuted
        /\ landmarkHistory = <<>>
        /\ fistStartTime = NULL
        /\ timers = <<>>

CooldownCallbacks == {"downgrade", "expiry", "testExpiry"}

\* C13 (Spec): after destroy() no cooldown timer callback changes systemState
\* or broadcasts on the closed channels.
C13_NoCallbackAfterDestroy ==
    [][(destroyed /\ call'.op \in CooldownCallbacks) =>
           /\ systemState' = systemState
           /\ "broadcast" \notin Range(call'.steps)]_vars

Expiries(tm) == {i \in 1..Len(tm) : tm[i].kind = "expiry"}

\* C15 (SpecFrames): the +300 ms callback leaves cooldownActive, the pending
\* expiry, systemStatus, detectedGesture, confidence and safetyApproved
\* unchanged; with no window active it changes nothing; and it turns
\* actionState into COOLDOWN only from EXECUTED.
C15_DowngradeVisualOnly ==
    [][call'.op = "downgrade" =>
           /\ cooldownActive' = cooldownActive
           /\ cooldownTimer' = cooldownTimer
           /\ {timers'[i] : i \in Expiries(timers')} = {timers[i] : i \in Expiries(timers)}
           /\ systemState'.systemStatus = systemState.systemStatus
           /\ systemState'.detectedGesture = systemState.detectedGesture
           /\ systemState'.confidence = systemState.confidence
           /\ systemState'.safetyApproved = systemState.safetyApproved
           /\ ~cooldownActive => (systemState' = systemState /\ published' = <<>>)
           /\ systemState'.actionState # systemState.actionState =>
                  /\ systemState.actionState = "EXECUTED"
                  /\ systemState'.actionState = "COOLDOWN"]_vars

\* C16 (SpecFrames): a frame with handDetected false publishes the IDLE state
\* (gesture NONE, confidence LOW, safetyApproved false, actionState NONE,
\* 'No hand detected') and stops there unless a listener throws; it runs no
\* classifier, executes no action and leaves isMuted, cooldownActive and the
\* pending timers unchanged, with a cooldown window open or not.
C16_NoHandIdle ==
    [][(call'.op = "frame" /\ call'.arg = "noHand") =>
           /\ published' # <<>>
           /\ published'[1] = State("IDLE", "NONE", "LOW", FALSE, "NONE", "No hand detected")
           /\ call'.fault = "none" =>
                  /\ Len(published') = 1
                  /\ systemState' = published'[1]
                  /\ call'.steps = << "broadcast" >>
           /\ "classify" \notin Range(call'.steps)
           /\ ~call'.executed
           /\ isMuted' = isMuted
           /\ cooldownActive' = cooldownActive
           /\ cooldownTimer' = cooldownTimer
           /\ timers' = timers]_vars

\* a hand-absent frame in an open cooldown window
C16_Witness ==
    /\ call.op = "frame"
    /\ call.arg = "noHand"
    /\ call.cooldownBefore
    /\ cooldownActive
    /\ timers # <<>>
    /\ published = << State("IDLE", "NONE", "LOW", FALSE, "NONE", "No hand detected") >>

\* the classifier's answer to the frame just processed was NONE or not HIGH
Unclear(c) ==
    /\ c.op = "frame"
    /\ c.classified
    /\ (c.gestureResult.gesture = "NONE" \/ c.gestureResult.confidence # "HIGH")

\* C17 (SpecFrames): when the classifier returns NONE or a confidence other
\* than HIGH, the frame publishes ACTIVE with safetyApproved false, actionState
\* NONE and 'Gesture unclear', does not reach the validator and changes
\* neither cooldownActive nor isMuted, with a cooldown window open or not.
C17_UnclearGesture ==
    [][Unclear(call') =>
           /\ published' # <<>>
           /\ published'[1] = State("ACTIVE", call'.gestureResult.gesture,
                                    call'.gestureResult.confidence, FALSE, "NONE",
                                    "Gesture unclear")
           /\ ~call'.validated
           /\ "validate" \notin Range(call'.steps)
           /\ ~call'.executed
           /\ cooldownActive' = cooldownActive
           /\ isMuted' = isMuted]_vars

\* a fist that has just closed, seen while a cooldown window is open
C17_Witness ==
    /\ Unclear(call)
    /\ call.cooldownBefore
    /\ call.gestureResult.gesture = "CLOSED_FIST"
    /\ call.gestureResult.confidence = "LOW"
    /\ published[1].actionState = "NONE"
    /\ published[1].userMessage = "Gesture unclear"

\* the validator denied the gesture of the frame just processed
Denied(c) == c.op = "frame" /\ c.validated /\ ~c.approved

\* C18 (SpecFrames): when the validator denies a HIGH gesture the frame
\* publishes ACTIVE with safetyApproved false, actionState COOLDOWN if
\* cooldownActive else NONE and the message of the reason ('Cooldown active'
\* for COOLDOWN_ACTIVE); it executes no action and leaves cooldownActive and
\* the pending callbacks of the open window as they were.
C18_DeniedFrame ==
    [][Denied(call') =>
           /\ call'.gestureResult.confidence = "HIGH"
           /\ published' # <<>>
           /\ published'[1] =
                  State("ACTIVE", call'.gestureResult.gesture, "HIGH", FALSE,
                        IF cooldownActive THEN "COOLDOWN" ELSE "NONE",
                        IF cooldownActive THEN "Cooldown active"
                        ELSE IF ~call'.gestureResult.isStable THEN "Hold gesture steady"
                        ELSE "Waiting...")
           /\ ~call'.executed
           /\ "execute" \notin Range(call'.steps)
           /\ isMuted' = isMuted
           /\ cooldownActive' = cooldownActive
           /\ cooldownTimer' = cooldownTimer
           /\ timers' = timers]_vars

\* a held fist denied 300 ms into the window, both callbacks still pending
C18_Witness ==
    /\ Denied(call)
    /\ call.cooldownBefore
    /\ cooldownActive
    /\ published[1].actionState = "COOLDOWN"
    /\ published[1].userMessage = "Cooldown active"
    /\ Len(timers) = 2
    /\ cooldownTimer = lastExecTime + cooldownDuration

\* C19 (SpecFrames): on an approved frame the actuator request comes first,
\* then the cooldown start with its 'cooldownStart' notification, then the
\* broadcast; the state published has actionState EXECUTED, safetyApproved
\* true and the actuator's message, and every EXECUTED state is published
\* with cooldownActive already true.
C19_ApprovedFrame ==
    /\ (call.op = "frame" /\ call.approved) =>
           /\ call.steps = << "classify", "validate", "execute", "startCooldown",
                              "broadcast" >>
           /\ published = << State("ACTIVE", call.gestureResult.gesture, "HIGH", TRUE,
                                   "EXECUTED",
                                   executeAction(call.gestureResult.gesture,
                                                 call.mutedBefore).message) >>
           /\ call.executed
           /\ cooldownActive
           /\ windowStart = now
    /\ \A i \in 1..Len(published) :
           published[i].actionState = "EXECUTED" => cooldownActive

\* C20 (SpecFrames): every call of processVisionData publishes the resulting
\* state exactly once, whatever branch it ends on.
C20_PublishedOnce ==
    call.op = "frame" =>
        /\ Len(published) = 1
        /\ published[1] = systemState
        /\ Cardinality({i \in 1..Len(call.steps) : call.steps[i] = "broadcast"}) = 1

\* C21: for every frame passed to update that is missing, has no points or has
\* fewer than 21 points, update returns {NONE, LOW, isStable = false} and the
\* fist-dwell start is null afterwards
C21_InvalidFrame ==
    (call.op = "update" /\ call.arg \in InvalidKinds) =>
        /\ ~call.escaped
        /\ call.gestureResult = noneResult
        /\ fistStartTime = NULL

\* a frame without landmarks arrives while a fist dwell is running: the last
\* frame on the history is a fist, and the dwell start is null after the call
C21_Witness ==
    /\ call.op = "update"
    /\ call.arg = "missing"
    /\ landmarkHistory # <<>>
    /\ ClosedFist([isNull |-> FALSE, hasPoints |-> TRUE,
                   points |-> landmarkHistory[Len(landmarkHistory)].points, timestamp |-> 0])
    /\ call.gestureResult = noneResult
    /\ fistStartTime = NULL

\* C22: over a run of consecutive closed-fist frames with non-decreasing
\* timestamps, update returns CLOSED_FIST with LOW (not stable) on the first
\* frame and while less than 250 ms have elapsed since the first frame of the
\* run, MEDIUM (not stable) from 250 ms to under 500 ms, and HIGH (stable) from
\* 500 ms on; the run began at poseSince
C22_DwellTiers ==
    (call.op = "update" /\ call.arg = "fist") =>
        /\ poseSince # NULL
        /\ ~call.escaped
        /\ call.gestureResult =
               IF now - poseSince < 250 THEN Result("CLOSED_FIST", "LOW", FALSE)
               ELSE IF now - poseSince < 500 THEN Result("CLOSED_FIST", "MEDIUM", FALSE)
               ELSE Result("CLOSED_FIST", "HIGH", TRUE)

\* the landmarks that qualify as a closed fist
FistKinds == {"fist", "fistRight"}

\* C23: the fist-dwell start changes only from null to the timestamp of the
\* first qualifying frame or from a timestamp to null, never from one
\* timestamp to another, and every frame passed to update that does not
\* qualify as a closed fist leaves it null
C23_DwellStart ==
    [][call'.op = "update" =>
          /\ fistStartTime # NULL => fistStartTime' \in {fistStartTime, NULL}
          /\ (fistStartTime = NULL /\ fistStartTime' # NULL) =>
                 (call'.arg \in FistKinds /\ fistStartTime' = now)
          /\ call'.arg \notin FistKinds => fistStartTime' = NULL]_vars

\* the last n elements of seq
LastOf(seq, n) == IF Len(seq) > n THEN SubSeq(seq, Len(seq) - n + 1, Len(seq)) ELSE seq

\* C24: the history holds at most 30 frames, and they are the most recent
\* valid frames that arrived since it was last cleared, in arrival order
C24_BoundedFifo ==
    /\ Len(landmarkHistory) <= 30
    /\ landmarkHistory = LastOf(arrived, 30)

\* more than 30 valid frames have arrived since the last clear: the history
\* holds the last 30 of them and the oldest ones are gone
C24_Witness ==
    /\ Len(arrived) > 30
    /\ Len(landmarkHistory) = 30
    /\ landmarkHistory[1] = arrived[Len(arrived) - 29]
    /\ landmarkHistory[1] # arrived[1]
    /\ landmarkHistory[30] = arrived[Len(arrived)]

SwipeGestures == {"SWIPE_LEFT", "SWIPE_RIGHT", "SWIPE_UP", "SWIPE_DOWN"}

\* the history entry update() pushes for the landmarks of the last call
EntryOf(kind, clock) == [points |-> Landmarks(kind, clock).points, timestamp |-> clock]

\* C25: whenever update returns a swipe the history is empty on return; at
\* least four valid frames had arrived since the history was last cleared, so
\* none of the four valid frames after a detection is classified as a swipe;
\* and the swipe is the one computed from the frames that arrived since then
C25_NoRetrigger ==
    [][(call'.op = "update" /\ call'.gestureResult.gesture \in SwipeGestures) =>
          /\ landmarkHistory' = <<>>
          /\ Len(arrived) >= 4
          /\ call'.gestureResult =
                 detectSwipe(Append(arrived, EntryOf(call'.arg, now)), "NONE").res]_vars

\* update has returned a swipe made of frames that came after an earlier
\* frame was dropped with the history, and the history is empty again
C25_Witness ==
    /\ call.op = "update"
    /\ call.gestureResult = Result("SWIPE_RIGHT", "HIGH", TRUE)
    /\ now = MotionMaxTime
    /\ landmarkHistory = <<>>
    /\ arrived = <<>>

\* the frames of the input within the trailing 300 ms of its last frame, the
\* time from the first of them to the last, and the palm displacement between
\* those two in thousandths (all frames but the last are at the origin)
InTrailingWindow(in) ==
    {i \in 1..Len(in.timing) : in.timing[Len(in.timing)] - in.timing[i] <= 300}

WindowElapsed(in) ==
    in.timing[Len(in.timing)]
      - in.timing[CHOOSE i \in InTrailingWindow(in) : \A j \in InTrailingWindow(in) : i <= j]

MovedX(in) == IF Cardinality(InTrailingWindow(in)) > 1 THEN in.dx ELSE 0
MovedY(in) == IF Cardinality(InTrailingWindow(in)) > 1 THEN in.dy ELSE 0

\* C26: a swipe is recognised only if |vx| > 1.5 |vy|, then SWIPE_RIGHT for
\* vx > 0 and SWIPE_LEFT for vx < 0, or |vy| > 1.5 |vx|, then SWIPE_DOWN for
\* vy > 0 and SWIPE_UP for vy < 0; when neither holds the result is NONE
\* whatever the magnitude. The velocities are the displacements over the same
\* positive time, so the comparisons are those of the displacements.
C26_Direction ==
    fnOut.done =>
        LET ax == Abs(MovedX(fnIn))
            ay == Abs(MovedY(fnIn))
            g == fnOut.res.gesture
        IN  /\ g \in SwipeGestures \cup {"NONE"}
            /\ g \in {"SWIPE_RIGHT", "SWIPE_LEFT"} => 2 * ax > 3 * ay
            /\ g = "SWIPE_RIGHT" => MovedX(fnIn) > 0
            /\ g = "SWIPE_LEFT" => MovedX(fnIn) < 0
            /\ g \in {"SWIPE_DOWN", "SWIPE_UP"} => 2 * ay > 3 * ax
            /\ g = "SWIPE_DOWN" => MovedY(fnIn) > 0
            /\ g = "SWIPE_UP" => MovedY(fnIn) < 0
            /\ (2 * ax <= 3 * ay /\ 2 * ay <= 3 * ax) => fnOut.res = noneResult

\* a fast diagonal motion is no swipe, and the same motion with a little more
\* on one axis would be: here 0.5 on both axes in 200 ms
C26_Witness ==
    /\ fnOut.done
    /\ fnIn.timing = << 1000, 1050, 1100, 1150, 1200 >>
    /\ fnIn.dx = -500
    /\ fnIn.dy = 500
    /\ fnOut.res = noneResult

Max(a, b) == IF a >= b THEN a ELSE b

C28_Confidence ==
    fnOut.done =>
        /\ fnOut.res.gesture \in SwipeGestures =>
               LET horizontal == fnOut.res.gesture \in {"SWIPE_RIGHT", "SWIPE_LEFT"}
                   d == IF horizontal THEN Abs(MovedX(fnIn)) ELSE Abs(MovedY(fnIn))
                   s == IF horizontal THEN Abs(MovedY(fnIn)) ELSE Abs(MovedX(fnIn))
                   e == WindowElapsed(fnIn)
                   high == 100 * d > 45 * e /\ 10 * s < 3 * d
                   medium == \/ 100 * d > 45 * e /\ 10 * s >= 3 * d
                             \/ 100 * d > 30 * e /\ 100 * d <= 45 * e
               IN  /\ fnOut.res.isStable
                   /\ fnOut.res.confidence = "HIGH" <=> high
                   /\ fnOut.res.confidence = "MEDIUM" <=> medium
                   /\ fnOut.res.confidence = "LOW" <=> (~high /\ ~medium)
        /\ (fnIn.timing = << 1000, 1050, 1100, 1150, 1200 >> /\ fnIn.dx = 500 /\ fnIn.dy = 20)
               => fnOut.res = Result("SWIPE_RIGHT", "HIGH", TRUE)

\* the example of the specification has been classified, as SWIPE_RIGHT HIGH
C28_Witness ==
    /\ fnOut.done
    /\ fnIn.timing = << 1000, 1050, 1100, 1150, 1200 >>
    /\ fnIn.dx = 500
    /\ fnIn.dy = 20
    /\ fnOut.res = Result("SWIPE_RIGHT", "HIGH", TRUE)

\* C29: whenever the pose of the current frame qualifies as a closed fist,
\* update returns CLOSED_FIST, never a swipe, whatever motion the history
\* holds, and the frame is pushed on the history, which is not cleared
C29_StaticFirst ==
    [][(call'.op = "update" /\ call'.arg \in FistKinds) =>
          /\ ~call'.escaped
          /\ call'.gestureResult.gesture = "CLOSED_FIST"
          /\ landmarkHistory' = LastOf(Append(landmarkHistory, EntryOf(call'.arg, now)), 30)]_vars

\* a closed fist arrives at the end of a motion that would be a swipe to the
\* right: the result is CLOSED_FIST and the five frames are still there
C29_Witness ==
    /\ call.op = "update"
    /\ call.arg = "fistRight"
    /\ call.gestureResult.gesture = "CLOSED_FIST"
    /\ Len(landmarkHistory) = 5
    /\ detectSwipe(landmarkHistory, "NONE").res.gesture = "SWIPE_RIGHT"

\* the last step was a frame on which the closed-fist action was executed
ExecutedFist(c) == c.op = "frame" /\ c.executed /\ c.gestureResult.gesture = "CLOSED_FIST"

\* C30: each executed CLOSED_FIST action toggles isMuted once and reports the
\* new value, 'Muted' or 'Unmuted'; every other frame (executed swipe, denied,
\* unclear, hand absent) and every timer callback leaves isMuted as it was,
\* and reset() makes it false; with isMuted false at construction, isMuted is
\* the parity of the fist actions executed since construction or reset()
C30_MuteToggle ==
    /\ ExecutedFist(call) =>
           /\ isMuted = ~call.mutedBefore
           /\ systemState.actionState = "EXECUTED"
           /\ systemState.userMessage = IF isMuted THEN "Muted" ELSE "Unmuted"
    /\ (call.op \in {"frame", "downgrade", "expiry"} /\ ~ExecutedFist(call)) =>
           isMuted = call.mutedBefore
    /\ call.op = "reset" => ~isMuted
    /\ call.op \in {"none", "frame", "downgrade", "expiry", "reset"}

\* the second fist action has been executed: isMuted went back to false and
\* the state says 'Unmuted'
C30_Witness ==
    /\ ExecutedFist(call)
    /\ call.mutedBefore
    /\ ~isMuted
    /\ systemState.userMessage = "Unmuted"

\* C31: every message posted to the visualization collaborator is the
\* projection of the state published with it: confidence HIGH is 0.95,
\* MEDIUM 0.6, LOW 0.2 and anything else 0 (here in hundredths);
\* actionExecuted iff actionState = EXECUTED; cooldownActive iff actionState =
\* COOLDOWN; gestureType, safetyApproved and systemStatus are copied
C31_VisualProjection ==
    /\ Len(visualized) = Len(published)
    /\ \A i \in 1..Len(visualized) :
           LET v == visualized[i]
               st == published[i]
           IN  /\ st.confidence = "HIGH" => v.confidence = 95
               /\ st.confidence = "MEDIUM" => v.confidence = 60
               /\ st.confidence = "LOW" => v.confidence = 20
               /\ st.confidence \notin {"HIGH", "MEDIUM", "LOW"} => v.confidence = 0
               /\ v.actionExecuted <=> st.actionState = "EXECUTED"
               /\ v.cooldownActive <=> st.actionState = "COOLDOWN"
               /\ v.gestureType = st.detectedGesture
               /\ v.safetyApproved = st.safetyApproved
               /\ v.systemStatus = st.systemStatus

\* an EXECUTED state with a confidence outside the three levels has been
\* published: the parameters say 0, executed and no cooldown
C31_Witness ==
    /\ Len(published) = 1
    /\ published[1].confidence = "UNKNOWN"
    /\ published[1].actionState = "EXECUTED"
    /\ visualized = << [confidence |-> 0, gestureType |-> published[1].detectedGesture,
                        safetyApproved |-> published[1].safetyApproved,
                        actionExecuted |-> TRUE, cooldownActive |-> FALSE,
                        systemStatus |-> published[1].systemStatus] >>

\* no field of the state holds what the caller of getState() wrote
Untampered(state) ==
    /\ state.detectedGesture # "TAMPERED"
    /\ state.actionState # "TAMPERED"
    /\ state.userMessage # "TAMPERED"

\* C32: getState() changes no orchestrator state, and writing to any field of
\* the object it returned changes neither systemState nor any state published
\* later
C32_ReadOnlySnapshot ==
    [][/\ call'.op \in {"getState", "mutateSnapshot"} =>
              UNCHANGED << landmarkHistory, fistStartTime, lastGesture, cooldownActive,
                           cooldownTimer, isMuted, systemState, timers >>
       /\ call'.op = "getState" => snapshot'.value = systemState
       /\ Untampered(systemState')
       /\ \A i \in 1..Len(published') : Untampered(published'[i])]_vars

\* the caller has overwritten the message of the EXECUTED state it was given,
\* and the +300 ms callback has since rewritten and published the current state
C32_Witness ==
    /\ snapshot.taken
    /\ snapshot.value.actionState = "EXECUTED"
    /\ snapshot.value.userMessage = "TAMPERED"
    /\ call.op = "downgrade"
    /\ published # <<>>
    /\ published[1].userMessage = "Cooldown active"

----------------------------------------------------------------------------
(* ActionExecutionAgent: properties *)

Refused == createResponse(FALSE, "NONE", FALSE)

\* C33: a call of execute with approved=false, or with a gestureType that has
\* no registered handler, returns {actionExecuted:false, actionType:'NONE',
\* cooldownStarted:false} and leaves isMuted, lastAction and the cooldown
\* state as they were
C33_NoExecutionWithoutApproval ==
    (/\ agentCall.op = "execute"
     /\ (~agentCall.input.approved
            \/ agentCall.input.gestureType \notin RegisteredGestures))
        => (agentCall.response = Refused /\ currentState = agentCall.before)

\* an execute that ran an action while the window of the one before it, with
\* no reset() since, was less than the cooldown duration old
RepeatedInWindow ==
    /\ agentCall.op = "execute"
    /\ agentCall.response.actionExecuted
    /\ agentCall.prev # NULL
    /\ now - agentCall.prev < agentCooldownDuration

\* an auto-clear callback that ended a window before its end time
EndedEarly ==
    /\ agentCall.op = "timer"
    /\ agentCall.before.cooldownActive
    /\ ~currentState.cooldownActive
    /\ now < agentCall.before.cooldownEndTime

\* C34: two calls of execute that both run an action, with no reset() since
\* the first, are at least the cooldown duration apart, and no auto-clear
\* callback ends a cooldown window before its end time
C34_NoRepeatDuringCooldown == ~RepeatedInWindow /\ ~EndedEarly

----------------------------------------------------------------------------
(* Orchestrator: invariants of the current and of the published state *)

\* C35: whenever the current state shows actionState EXECUTED or COOLDOWN,
\* cooldownActive is true
C35_ShownCooldownIsActive ==
    systemState.actionState \in {"EXECUTED", "COOLDOWN"} => cooldownActive

\* the expiry callback of a cooldown window has cleared the flag and turned
\* the shown actionState back to NONE
C35_Witness ==
    /\ call.op = "expiry"
    /\ call.cooldownBefore
    /\ ~cooldownActive
    /\ systemState.systemStatus = "ACTIVE"
    /\ systemState.actionState = "NONE"

\* C36: every published state with safetyApproved true is ACTIVE, names a
\* gesture other than NONE and has confidence HIGH
C36_ApprovedIsActiveHigh ==
    \A i \in 1..Len(published) :
        published[i].safetyApproved =>
            /\ published[i].systemStatus = "ACTIVE"
            /\ published[i].detectedGesture # "NONE"
            /\ published[i].confidence = "HIGH"

\* the +300 ms callback has rewritten an approved EXECUTED state in place and
\* published it again
C36_Witness ==
    /\ call.op = "downgrade"
    /\ published # <<>>
    /\ published[1].safetyApproved
    /\ published[1].actionState = "COOLDOWN"

\* C37: every published state with systemStatus IDLE has actionState NONE and
\* the message 'No hand detected'
C37_IdleIsPlain ==
    \A i \in 1..Len(published) :
        published[i].systemStatus = "IDLE" =>
            /\ published[i].actionState = "NONE"
            /\ published[i].userMessage = "No hand detected"

----------------------------------------------------------------------------
(* Orchestrator: a fist held through a cooldown window *)

\* C38: a frame that executes a closed-fist action leaves the classifier's
\* dwell start as it was, and a closed-fist frame processed while no cooldown
\* is active, after closed-fist frames delivered without a break for 500 ms
\* or more, executes the action: also when the dwell began before the action
\* executed last
C38_HeldFistRepeats ==
    [][/\ ExecutedFist(call') =>
              (fistStartTime # NULL /\ fistStartTime' = fistStartTime)
       /\ (/\ call'.op = "frame"
           /\ call'.arg = "fist"
           /\ ~cooldownActive
           /\ poseSince # NULL
           /\ now - poseSince >= FIST_STABILITY_THRESHOLD_MS) => ExecutedFist(call')]_vars

\* a fist held since before the last executed action has executed the action
\* again, on a frame processed at the instant the cooldown window expired
C38_Witness ==
    /\ ExecutedFist(call)
    /\ call.execBefore # NULL
    /\ poseSince # NULL
    /\ poseSince < call.execBefore
    /\ now = call.execBefore + cooldownDuration

----------------------------------------------------------------------------
(* Orchestrator: what the safety gate of processVisionData can answer *)

\* C39: a frame publishes neither 'Hold gesture steady' nor 'Camera
\* unavailable' nor actionState READY; when the validator denies, a cooldown
\* is active and the denial published is 'Cooldown active'; when it approves,
\* step 4 follows, never the second cooldown test of step 5
C39_OnlyCooldownDenial ==
    call.op = "frame" =>
        /\ \A i \in 1..Len(published) :
               /\ published[i].userMessage \notin {"Hold gesture steady", "Camera unavailable"}
               /\ published[i].actionState # "READY"
        /\ (call.validated /\ ~call.approved) =>
               /\ call.cooldownBefore
               /\ published # <<>>
               /\ published[1].userMessage = "Cooldown active"
        /\ (call.validated /\ call.approved) => "execute" \in Range(call.steps)

\* the validator has denied a HIGH, stable gesture during a cooldown window
C39_Witness ==
    /\ call.op = "frame"
    /\ call.validated
    /\ ~call.approved
    /\ HighStable
    /\ published # <<>>
    /\ published[1].actionState = "COOLDOWN"

----------------------------------------------------------------------------
(* Orchestrator: the cooldown notifications *)

\* C40: 'cooldownStart' and 'cooldownEnd' alternate, beginning with a start:
\* no 'cooldownStart' is emitted while the one before it has had no
\* 'cooldownEnd', and no 'cooldownEnd' is emitted with no start to match
C40_PairedNotifications == unmatched \in {0, 1}

====
